---- MODULE Spec2Model ----
(***************************************************************************)
(* State-machine model of the sled-mailbox radar pipeline.                 *)
(*                                                                         *)
(*   rd03e_scope.py              direction pairer, classifier, counters,   *)
(*                               HTTP commands, trigger state machine      *)
(*   rd03e_two_sensor_counter.py burst detector and guarded pairing loop   *)
(*                                                                         *)
(* Time is counted in ticks of TickMs milliseconds; every timestamp the    *)
(* code takes with time.time() is a tick count.  The process starts at     *)
(* tick Epoch, which stands for the (large) wall-clock time at start-up,   *)
(* so that the zero-initialised timestamps of the code (DIR["last_ts"],    *)
(* last_emit_ts, last_cross_t, ...) lie far in the past as they do in a    *)
(* real run.  A missing value (Python None) of a number is NoneV.          *)
(***************************************************************************)
EXTENDS Integers, Sequences, FiniteSets, TLC

\* ------------------------------------------------------------------ bounds
Epoch == 100
Horizon == 4
MaxErrs == 1
MaxCmds == 1
MaxSamples == 1
MaxDiag == 1

\* --------------------------------------------------------------- constants
TickMs == 50
NoneV == -1
Sides == {"A", "B"}
Other(s) == IF s = "A" THEN "B" ELSE "A"

Max2(a, b) == IF a >= b THEN a ELSE b
Abs(x) == IF x >= 0 THEN x ELSE -x

VARIABLES
  clock,         \* time.time(), in ticks
  State,         \* the public keys of STATE (tunables, counters, last_event)
  DIR,           \* the shared direction state DIR
  last_emit_ts,  \* ReaderState.last_emit_ts of each reader
  ENG_HIST,      \* ENG_HIST[side]["me"]
  CONFIG,        \* contents of the config file
  save_timer,    \* whether the debounced-save timer is armed
  cmds,          \* number of HTTP commands issued so far
  samples,       \* number of eng_sampler rounds so far
  prev_cross,    \* history: time of the last counted crossing and the
                 \* refractory time in force when it was counted
  wpc,           \* position of the reader thread holding DIR_LOCK
  wtmp,          \* the counter value that thread has read
  wev,           \* the event that thread is counting
  rpc,           \* number of writes a running counts_reset has made
  snap,          \* the values a running diag request has read so far
  diags,         \* number of diag requests started
  wnow,          \* the time a reader thread read on entering _emit_dir_edge
  args,          \* two-sensor counter: the parsed command line
  rd_last_ts,    \* RD03EReader.last_ts of each reader
  det,           \* the BurstDetector of each sensor
  q,             \* the event queues qA, qB
  inbound,       \* crossings A->B counted
  outbound,      \* crossings B->A counted
  last_cross_t,  \* time of the last counted crossing
  mpc,           \* position of the main loop
  ld_s,          \* scope: STATE["a_ld_s"], STATE["b_ld_s"]
  rs,            \* the ReaderState of each reader
  rdpc,          \* position of each reader in its loop
  borrowed,      \* whether a macro holds BORROW_LOCKS[side]
  tx,            \* the bytes a radar has put on its serial line so far
  sm,            \* byte-at-a-time decoder: state, cur_id, cur_val, frames seen
  rbuf,          \* two-sensor counter's RD03EReader: buf, frames taken
  line,          \* scope: bytes waiting at each reader's serial port
  xbuf,          \* SerialReader._buf of each reader
  xout,          \* the frames extract_report_frames has returned to each reader
  ld_raw,        \* STATE["a_ld"], STATE["b_ld"]: the last decoded report
  ema,           \* a smoothed report and a burst baseline fed a constant
  RUNNING,       \* scope: the module's RUNNING flag
  port_ok,       \* whether the serial port of each worker can be opened
  ser,           \* the serial stream of each worker: "none", "open", "closed"
  stop_ev,       \* the _stop event of each worker
  wk,            \* position of the workers of sensors.py and of the counter
  errlog,        \* the errors each worker has caught and logged
  mio,           \* scope: position of a _txrx call on each reader's port
  wp,            \* rd03e_wave_single.py: the DirectionPairer
  usb,           \* sensors.py: the locals of each Ld2410UsbReader.run
  evq,           \* sensors.py: GPIOInputs._q, the event queue of the app
  app            \* app.py: the locals of main

scopeVars == <<State, DIR, last_emit_ts, ENG_HIST, CONFIG, save_timer, cmds,
               samples, prev_cross>>

\* Thread positions of the interleaved view of the scope.
concVars == <<wpc, wtmp, wev, rpc, snap, diags, wnow>>

\* The scope's readers between the serial port and the rising edge.
trigVars == <<ld_s, rs, rdpc, borrowed>>

\* State of rd03e_two_sensor_counter.py.
pairVars == <<args, rd_last_ts, det, q, inbound, outbound, last_cross_t, mpc>>

\* The serial side: the wire and the frame decoders.
\* The workers' life from start to end.
runVars == <<RUNNING, port_ok, ser, stop_ev, wk, errlog>>

\* The main app, its inputs, and the callers of the scope's ports.
appVars == <<mio, wp, usb, evq, app>>

ioVars == <<tx, sm, rbuf, line, xbuf, xout, ld_raw, ema, appVars, runVars>>

\* What the atomic view of the scope leaves alone.
nonScopeVars == <<concVars, pairVars, trigVars, ioVars>>

vars == <<clock, scopeVars, nonScopeVars>>

\* ====================================================================
\* rd03e_scope.py: shared state
\* ====================================================================

\* STATE["last_event"] as initialised at import.
NoEvent ==
  [dir |-> "None", t |-> NoneV, dt |-> NoneV, speed_mps |-> <<NoneV, 1>>,
   peak_me_A |-> NoneV, peak_me_B |-> NoneV, duration_s |-> NoneV,
   class |-> "None"]

\* The value counts_reset stores in STATE["last_event"] (Python None).
ClearedEvent ==
  [dir |-> "Cleared", t |-> NoneV, dt |-> NoneV, speed_mps |-> <<NoneV, 1>>,
   peak_me_A |-> NoneV, peak_me_B |-> NoneV, duration_s |-> NoneV,
   class |-> "Cleared"]

\* The public keys of STATE the model follows, with their values at import.
\* Durations are in ticks (0.80 s = 16, 0.25 s = 5, 1.00 s = 20, 0.30 s = 6,
\* 0.10 s = 2), sensor_gap_cm in hundredths of a centimetre (7.62 cm),
\* veh_speed_min_mps in tenths of a metre per second (0.8 m/s), ld_alpha in
\* hundredths (0.15).  The optional still thresholds (trigA_still, ...) are
\* None at import and fall back to the moving ones; they are not followed.
STATE_DEFAULTS ==
  [pair |-> 16, minsep |-> 5, refract |-> 20,
   holdA |-> 6, holdB |-> 6,
   sensor_gap_cm |-> 762,
   veh_speed_min_mps |-> 8,
   veh_peak_me_min |-> 40,
   veh_min_duration |-> 2,
   ld_alpha |-> 15, min_energy |-> 5,
   trigA |-> 35, trigB |-> 35, hysA |-> 5, hysB |-> 5,
   trig_source |-> "moving", trig_mode |-> "spike",
   k_sigma |-> 2, sigma_floor |-> 6, dz_min |-> 5, presence_se_min |-> 25,
   wave_cm |-> 15,
   count_A2B |-> 0, count_B2A |-> 0, count_total |-> 0, count_other |-> 0,
   last_event |-> NoEvent]

PUB_KEYS == DOMAIN STATE_DEFAULTS

CONFIG_DEFAULTS == STATE_DEFAULTS

\* The config file found at start-up, which main copies into STATE before
\* the readers start: a file saved by an earlier run whose operator tuned
\* the pairer to a pairing window of 150 ms, a minimum separation of 50 ms
\* and a refractory time of 150 ms.
BootConfig ==
  [STATE_DEFAULTS EXCEPT !.pair = 3, !.minsep = 1, !.refract = 3]

CounterKeys == {"count_A2B", "count_B2A", "count_total", "count_other"}

DIR_INIT ==
  [pending |-> "None", ts |-> 0, refract_until |-> 0, last |-> "None",
   last_ts |-> 0, rise_ts |-> [s \in Sides |-> NoneV]]

\* ====================================================================
\* rd03e_scope.py: SerialReader._emit_dir_edge
\* ====================================================================

\* The per-reader debounce of _emit_dir_edge, 0.05 s.
EmitDebounce == 1
\* lookback_s / 0.5 in _emit_dir_edge: the number of history samples read.
LookbackSamples == 5
\* maxlen of the ENG_HIST deques.
HistMaxLen == 120

EvtName(lead, lag) == IF lead = "A" /\ lag = "B" THEN "A2B" ELSE "B2A"

\* Mutant of InRefractory: the refractory test is missing.
InRefractory_Off(dir, now) == FALSE

\* Line 443: an edge inside the refractory period is ignored.
InRefractory(dir, now) == now < dir.refract_until

\* The pairing decision of _emit_dir_edge once the debounce has passed and
\* last_emit_ts is written: what becomes of DIR, and whether a crossing is
\* accepted.  kind names the branch taken.
DirDecide(dir, st, side, now) ==
  IF InRefractory(dir, now)
  THEN [dir |-> dir, accepted |-> FALSE, kind |-> "refractory"]
  ELSE
    LET d1 == [dir EXCEPT !.rise_ts[side] = now] IN
    IF d1.pending = "None"
    THEN [dir |-> [d1 EXCEPT !.pending = side, !.ts = now],
          accepted |-> FALSE, kind |-> "first"]
    ELSE IF d1.pending # side /\ (now - d1.ts) <= st.pair
    THEN IF now - d1.last_ts >= st.minsep
         THEN [dir |-> [d1 EXCEPT !.last = EvtName(d1.pending, side),
                                  !.last_ts = now,
                                  !.refract_until = now + st.refract,
                                  !.pending = "None", !.ts = 0],
               accepted |-> TRUE, kind |-> "accept"]
         ELSE [dir |-> [d1 EXCEPT !.pending = "None", !.ts = 0],
               accepted |-> FALSE, kind |-> "minsep"]
    ELSE [dir |-> [d1 EXCEPT !.pending = side, !.ts = now],
          accepted |-> FALSE, kind |-> "replace"]

\* feat(side_key): the peak of the last LookbackSamples history samples.
SeqMax(xs) ==
  IF Len(xs) = 0 THEN NoneV
  ELSE CHOOSE m \in {xs[i] : i \in 1..Len(xs)} : \A i \in 1..Len(xs) : xs[i] <= m

LastN(xs, n) == IF Len(xs) <= n THEN xs ELSE SubSeq(xs, Len(xs) - n + 1, Len(xs))

Feat(hist, side) == SeqMax(LastN(hist[side], LookbackSamples))

\* x or 0.0
OrZero(x) == IF x = NoneV THEN 0 ELSE x

\* speed_mps = (gap_cm / 100) / dt, kept as the fraction <<num, den>> in
\* metres per second (dt ticks are dt * TickMs / 1000 seconds); None when
\* dt is missing or not above 1 ms.
SpeedOf(gap_cm, dt) ==
  IF dt # NoneV /\ dt > 0 THEN <<gap_cm, 10 * dt * TickMs>> ELSE <<NoneV, 1>>

\* (speed_mps or 0) >= v_min, v_min in tenths of a metre per second.
SpeedAtLeast(speed, v_min) ==
  IF speed[1] = NoneV THEN 0 >= v_min
  ELSE speed[1] * 10 >= v_min * speed[2]

\* Mutant of IsCar: the peak-energy test is missing.
IsCar_NoPeak(speed_mps, peak_me_both, duration_ok, st) ==
  IF SpeedAtLeast(speed_mps, st.veh_speed_min_mps) /\ duration_ok
  THEN "car" ELSE "other"

\* Lines 499-501: the class of a crossing.
IsCar(speed_mps, peak_me_both, duration_ok, st) ==
  IF SpeedAtLeast(speed_mps, st.veh_speed_min_mps)
     /\ peak_me_both >= st.veh_peak_me_min /\ duration_ok
  THEN "car" ELSE "other"

\* The classification block of _emit_dir_edge: the event it retains.
Classify(dir, st, hist, now) ==
  LET ra == dir.rise_ts["A"]
      rb == dir.rise_ts["B"]
      dt == IF ra # NoneV /\ ra # 0 /\ rb # NoneV /\ rb # 0
            THEN Abs(rb - ra) ELSE NoneV
      speed_mps == SpeedOf(st.sensor_gap_cm, dt)
      peak_me_A == Feat(hist, "A")
      peak_me_B == Feat(hist, "B")
      duration_s == Max2(st.holdA, st.holdB)
      peak_me_both == Max2(OrZero(peak_me_A), OrZero(peak_me_B))
      duration_ok == duration_s >= st.veh_min_duration
      cls == IsCar(speed_mps, peak_me_both, duration_ok, st)
  IN [dir |-> dir.last, t |-> now, dt |-> dt, speed_mps |-> speed_mps,
      peak_me_A |-> peak_me_A, peak_me_B |-> peak_me_B,
      duration_s |-> duration_s, class |-> cls]

\* The counter a classified event adds to, per direction and per class.
DirCounter(ev) == IF ev.dir = "A2B" THEN "count_A2B" ELSE "count_B2A"
ClassCounter(ev) == IF ev.class = "car" THEN "count_total" ELSE "count_other"

\* Mutant of CountEvent: the class counter is not incremented.
CountEvent_DirOnly(st, ev) ==
  [st EXCEPT ![DirCounter(ev)] = st[DirCounter(ev)] + 1, !.last_event = ev]

\* Lines 503-518: both increments and the retained event.
CountEvent(st, ev) ==
  LET s1 == [st EXCEPT ![DirCounter(ev)] = st[DirCounter(ev)] + 1]
      s2 == [s1 EXCEPT ![ClassCounter(ev)] = s1[ClassCounter(ev)] + 1]
  IN [s2 EXCEPT !.last_event = ev]

\* The debounce test at the head of _emit_dir_edge.
Debounced(side, now) == now - last_emit_ts[side] < EmitDebounce

\* Lines 434-536, the part of _emit_dir_edge under DIR_LOCK, for the
\* reader of `side` that read the time `now` at line 433: what it does to
\* the state it touches.
EmitCoreAt(side, now) ==
  IF Debounced(side, now)
  THEN /\ UNCHANGED <<last_emit_ts, DIR, State, prev_cross>>
  ELSE LET r == DirDecide(DIR, State, side, now) IN
       /\ last_emit_ts' = [last_emit_ts EXCEPT ![side] = now]
       /\ DIR' = r.dir
       /\ State' = IF r.accepted
                   THEN CountEvent(State, Classify(r.dir, State, ENG_HIST, now))
                   ELSE State
       /\ prev_cross' = IF r.accepted
                        THEN [t |-> now, refract |-> State.refract]
                        ELSE prev_cross

\* _emit_dir_edge called by the reader of `side` with nothing else running
\* between its reading of the time and its taking of the lock.
EmitCore(side) == EmitCoreAt(side, clock)

\* A rising edge of the trigger of `side` whose handling of the sample is
\* not followed here: one call of _emit_dir_edge.
EmitDirEdge(side) ==
  /\ EmitCore(side)
  /\ UNCHANGED <<clock, ENG_HIST, CONFIG, save_timer, cmds, samples>>
  /\ UNCHANGED nonScopeVars

\* ====================================================================
\* rd03e_scope.py: eng_sampler, HTTP commands
\* ====================================================================

\* Smoothed moving energies the sampler may find in STATE["a_ld_s"/"b_ld_s"].
MeLevels == {20, 60}

Append120(xs, x) ==
  IF Len(xs) >= HistMaxLen THEN Append(Tail(xs), x) ELSE Append(xs, x)

\* One round of eng_sampler: one sample per side appended under ENG_LOCK.
EngSampler ==
  /\ samples < MaxSamples
  /\ \E ma \in MeLevels, mb \in MeLevels :
       ENG_HIST' = [ENG_HIST EXCEPT !["A"] = Append120(@, ma),
                                    !["B"] = Append120(@, mb)]
  /\ samples' = samples + 1
  /\ UNCHANGED <<clock, State, DIR, last_emit_ts, CONFIG, save_timer, cmds, prev_cross>>
  /\ UNCHANGED nonScopeVars

\* POST /counts/reset
CountsReset ==
  /\ cmds < MaxCmds
  /\ State' = [State EXCEPT !.count_A2B = 0, !.count_B2A = 0,
                            !.count_total = 0, !.count_other = 0,
                            !.last_event = ClearedEvent]
  /\ cmds' = cmds + 1
  /\ UNCHANGED <<clock, DIR, last_emit_ts, ENG_HIST, CONFIG, save_timer, samples, prev_cross>>
  /\ UNCHANGED nonScopeVars

\* Values a client sends for a key in the model's runs.
PatchValues(k) ==
  CASE k = "refract" -> {1}
    [] k = "veh_peak_me_min" -> {70}
    [] k = "sensor_gap_cm" -> {5588}
    [] k = "veh_min_duration" -> {8}
    [] k = "min_energy" -> {25}
    [] k \in CounterKeys -> {2}
    [] OTHER -> {}

\* POST /state with a body of one field; _save_debounced arms the timer.
StatePatch(k, v) ==
  /\ cmds < MaxCmds
  /\ State' = IF k \in PUB_KEYS THEN [State EXCEPT ![k] = v] ELSE State
  /\ save_timer' = TRUE
  /\ cmds' = cmds + 1
  /\ UNCHANGED <<clock, DIR, last_emit_ts, ENG_HIST, CONFIG, samples, prev_cross>>
  /\ UNCHANGED nonScopeVars

\* A JSON string in a request body.  STATE keeps whatever value the body
\* carries; the model, whose values are numbers, marks a string by a
\* number no tunable and no request uses.
JsonString == 0 - 10 ^ 6

\* Keys a request body may carry: three tunables and a key of STATE that
\* is not public.
BodyKeys == {"refract", "min_energy", "ld_alpha", "a_ld"}

\* Values the fields of a request body may carry: a usual one, one no
\* radar or clock can meet (a refractory time of -1 s, an energy of 250,
\* a smoothing factor of 0), and a string.
BodyValues(k) ==
  CASE k = "refract" -> {10, 0 - 20, JsonString}
    [] k = "min_energy" -> {25, 250, JsonString}
    [] k = "ld_alpha" -> {50, 0, JsonString}
    [] OTHER -> {0}

Bodies ==
  UNION {{b \in [D -> UNION {BodyValues(k) : k \in BodyKeys}] :
            \A k \in D : b[k] \in BodyValues(k)} : D \in SUBSET BodyKeys}

\* POST /state, lines 868-877: every field of the body whose key is
\* public is stored as it came; _save_debounced arms the timer.
StatePost(body) ==
  /\ cmds < MaxCmds
  /\ State' = [k \in DOMAIN State |->
                IF k \in DOMAIN body /\ k \in PUB_KEYS THEN body[k] ELSE State[k]]
  /\ save_timer' = TRUE
  /\ cmds' = cmds + 1
  /\ UNCHANGED <<clock, DIR, last_emit_ts, ENG_HIST, CONFIG, samples, prev_cross>>
  /\ UNCHANGED nonScopeVars

\* The timer of _save_debounced fires: the public keys are written out.
SaveTimer ==
  /\ save_timer
  /\ CONFIG' = [k \in PUB_KEYS |-> State[k]]
  /\ save_timer' = FALSE
  /\ UNCHANGED <<clock, State, DIR, last_emit_ts, ENG_HIST, cmds, samples, prev_cross>>
  /\ UNCHANGED nonScopeVars

\* POST /save
Save ==
  /\ cmds < MaxCmds
  /\ save_timer' = TRUE
  /\ cmds' = cmds + 1
  /\ UNCHANGED <<clock, State, DIR, last_emit_ts, ENG_HIST, CONFIG, samples, prev_cross>>
  /\ UNCHANGED nonScopeVars

\* POST /load: every public key of the config file is copied into STATE.
Load ==
  /\ cmds < MaxCmds
  /\ State' = [k \in DOMAIN State |->
                 IF k \in DOMAIN CONFIG /\ k \in PUB_KEYS THEN CONFIG[k] ELSE State[k]]
  /\ cmds' = cmds + 1
  /\ UNCHANGED <<clock, DIR, last_emit_ts, ENG_HIST, CONFIG, save_timer, samples, prev_cross>>
  /\ UNCHANGED nonScopeVars

\* POST /reset: every public key back to its import-time default.
Reset ==
  /\ cmds < MaxCmds
  /\ State' = [k \in DOMAIN State |->
                 IF k \in PUB_KEYS THEN CONFIG_DEFAULTS[k] ELSE State[k]]
  /\ cmds' = cmds + 1
  /\ UNCHANGED <<clock, DIR, last_emit_ts, ENG_HIST, CONFIG, save_timer, samples, prev_cross>>
  /\ UNCHANGED nonScopeVars

\* Time passes.
Tick ==
  /\ clock < Epoch + Horizon
  /\ clock' = clock + 1
  /\ UNCHANGED <<scopeVars, nonScopeVars>>

\* The module's globals after main() has loaded the config file cfg.
InitScopeWith(cfg) ==
  /\ State = cfg
  /\ DIR = DIR_INIT
  /\ last_emit_ts = [s \in Sides |-> 0]
  /\ ENG_HIST = [s \in Sides |-> <<>>]
  /\ CONFIG = cfg
  /\ save_timer = FALSE
  /\ cmds = 0
  /\ samples = 0
  /\ prev_cross = [t |-> NoneV, refract |-> 0]

InitScope == InitScopeWith(BootConfig)

\* No reader thread inside _emit_dir_edge, no request running.
InitConc ==
  /\ wpc = "idle"
  /\ wtmp = 0
  /\ wev = NoEvent
  /\ rpc = 0
  /\ snap = <<>>
  /\ diags = 0
  /\ wnow = [s \in Sides |-> NoneV]

\* The two-sensor counter's command line as the scope's runs carry it.
ARGS ==
  [trig_on |-> 12, trig_off10 |-> 72, minsep |-> 1, refract |-> 1,
   pair |-> 2, min_dt |-> 1, amp_ratio10 |-> 12, pair_mode |-> "start"]

\* A detector after __init__.
DET_INIT ==
  [in_burst |-> FALSE, start_t |-> 0, peak_t |-> 0, peak_amp |-> 0,
   last_emit_t |-> 0]

\* main of rd03e_two_sensor_counter.py before its loop, for a command line a.
InitPair(a) ==
  /\ args = a
  /\ rd_last_ts = [s \in Sides |-> 0]
  /\ det = [s \in Sides |-> DET_INIT]
  /\ q = [s \in Sides |-> <<>>]
  /\ inbound = 0
  /\ outbound = 0
  /\ last_cross_t = 0
  /\ mpc = "sleep"

\* STATE["a_ld_s"] at import.
LD_S_INIT ==
  [move_energy |-> 0, move_dist |-> NoneV, still_energy |-> 0, still_dist |-> NoneV]

\* ReaderState().  me_mean and me_m2 are kept as the sum and the sum of
\* squares of the me_n samples learned: me_mean = me_sum / me_n and
\* me_m2 = me_sumsq - me_sum^2 / me_n.  last_update_ts is time.time() at
\* construction.
RS_INIT ==
  [trig_on |-> FALSE, last_valid_ts |-> 0, last_me |-> 0,
   me_n |-> 0, me_sum |-> 0, me_sumsq |-> 0, dist_ring |-> <<>>,
   last_update_ts |-> Epoch]

\* Ld2410Report(); also STATE["a_ld"] at import.  move_dist None marks the
\* absence of a report where a report or None is expected.
NoReport ==
  [move_energy |-> 0, move_dist |-> NoneV, still_energy |-> 0, still_dist |-> NoneV]

\* The wire: the frames sent in full, the frame being sent and how many
\* of its seven bytes are out, the number of garbage bytes sent, the
\* number of frames cut short, the number of bytes sent and the last
\* seven of them.
TX_INIT ==
  [sent |-> <<>>, cur |-> <<0, 0>>, pos |-> 0, garbage |-> 0, lost |-> 0,
   bytes |-> 0, tail |-> <<>>]

\* state = 0 before the first byte; cur_id and cur_val are unset.
SM_INIT == [state |-> 0, cur_id |-> NoneV, cur_val |-> NoneV, out |-> <<>>]

\* buf = bytearray(); no frame taken yet.
RBUF_INIT == [buf |-> <<>>, out |-> <<>>]

\* Smoothed report and baseline before the first sample (STATE["a_ld_s"]
\* at line 70, BurstDetector.__init__), ld_alpha and min_energy of STATE.
EMA_INIT ==
  [alpha |-> BootConfig.ld_alpha, min_energy |-> BootConfig.min_energy,
   cur |-> LD_S_INIT, mu |-> NoneV, rep |-> NoReport, val |-> 0, n |-> 0, k |-> 0]

\* The threads that read a radar: SerialReader of rd03e_scope.py,
\* Ld2410UsbReader of sensors.py, RD03EReader of the two-sensor counter.
Workers == {"scope", "usb", "cnt"} \X Sides

\* The workers as the runs that follow the readers' loops find them: the
\* scope's port B failed to open and its reader has returned, every other
\* port is open and its worker is in its loop, nothing has asked to stop.
InitRunning ==
  /\ RUNNING = TRUE
  /\ port_ok = [w \in Workers |-> w # <<"scope", "B">>]
  /\ ser = [w \in Workers |-> IF w # <<"scope", "B">> THEN "open" ELSE "none"]
  /\ stop_ev = [w \in Workers |-> FALSE]
  /\ errlog = [w \in Workers |-> 0]
  /\ wk = [w \in {"usb", "cnt"} \X Sides |-> "loop"]

\* No _txrx call is running.
MIO_INIT == [s \in Sides |-> "none"]

\* rd03e_wave_single.py before main has parsed its command line:
\* DirectionPairer.__init__ and the last_fire of each RD03EReader, with
\* the defaults of --pair, --quiet and --debounce in ticks; `pairs` is a
\* history of the pairs counted, as positions in `events`.
WP_INIT ==
  [pc |-> "new", events |-> <<>>, last_pair_t |-> 0, total_in |-> 0,
   total_out |-> 0, last_fire |-> [s \in Sides |-> 0], pairs |-> <<>>,
   pair_window |-> 16, quiet_time |-> 18, debounce |-> 7]

\* The locals of Ld2410UsbReader.run before its loop; prev_me is a
\* history of the moving energy of the last decoded report and rep_ts of
\* its time.
USB_INIT ==
  [last_present |-> FALSE, last_event_ts |-> 0, prev_me |-> NoneV, rep_ts |-> 0]

\* The locals of main of app.py before its loop (lines 175-191), with the
\* day of the year `today` that time.localtime() shows and the time
\* `pin_t` each GPIO button last fired.  Histories: `ticks`, the time
\* that has passed; `emitted` and `passes`, the number of button presses
\* and of cars at a radar; tA_ev and
\* tB_ev, the time the radar produced the event that set tA, tB; `cars`,
\* the production times of the two events of each car counted; `plays`,
\* the production time of the event that started each playback.
APP_INIT ==
  [pc |-> "top", now_ts |-> 0, play_until |-> 0,
   tA |-> NoneV, tB |-> NoneV, last_car_time |-> 0,
   car_total |-> 0, car_today |-> 0, inbound_today |-> 0, outbound_today |-> 0,
   last_midnight |-> 0, today |-> 0,
   last_letter_time |-> 0, last_donation_time |-> 0,
   pin_t |-> [l |-> 0, d |-> 0],
   ticks |-> 0, emitted |-> 0, passes |-> 0, tA_ev |-> NoneV, tB_ev |-> NoneV,
   cars |-> <<>>, plays |-> <<>>]

\* The main app and the other programs before their first step.
InitApp ==
  /\ mio = MIO_INIT
  /\ wp = WP_INIT
  /\ usb = [s \in Sides |-> USB_INIT]
  /\ evq = <<>>
  /\ app = APP_INIT

\* Nothing on the wire, the decoders in their start state.
InitIO ==
  /\ tx = TX_INIT
  /\ sm = SM_INIT
  /\ rbuf = RBUF_INIT
  /\ line = [s \in Sides |-> <<>>]
  /\ xbuf = [s \in Sides |-> <<>>]
  /\ xout = [s \in Sides |-> <<>>]
  /\ ld_raw = [s \in Sides |-> NoReport]
  /\ ema = EMA_INIT
  /\ InitApp
  /\ InitRunning

\* The readers before their first chunk; no macro running.
InitTrig ==
  /\ ld_s = [s \in Sides |-> LD_S_INIT]
  /\ rs = [s \in Sides |-> RS_INIT]
  /\ rdpc = [s \in Sides |-> "read"]
  /\ borrowed = [s \in Sides |-> FALSE]

Init ==
  /\ clock = Epoch
  /\ InitScope
  /\ InitConc
  /\ InitPair(ARGS)
  /\ InitTrig
  /\ InitIO

\* Keys patched in the runs of Spec (tunables) and of SpecCmd (counters).
TunableKeys ==
  {"refract", "veh_peak_me_min", "sensor_gap_cm", "veh_min_duration"}

\* The scope's pairer, classifier and counters with live tuning.
Next ==
  \/ Tick
  \/ \E side \in Sides : EmitDirEdge(side)
  \/ EngSampler
  \/ CountsReset
  \/ \E k \in TunableKeys : \E v \in PatchValues(k) : StatePatch(k, v)

Spec == Init /\ [][Next]_vars

\* The same with every command that writes the public keys.
NextCmd ==
  \/ Tick
  \/ \E side \in Sides : EmitDirEdge(side)
  \/ CountsReset
  \/ \E k \in CounterKeys : \E v \in PatchValues(k) : StatePatch(k, v)
  \/ SaveTimer
  \/ Save
  \/ Load
  \/ Reset

SpecCmd == Init /\ [][NextCmd]_vars

\* Parameter patches of several fields, the debounced save and the
\* commands that read the file back.
NextPatch ==
  \/ Tick
  \/ \E body \in Bodies : StatePost(body)
  \/ SaveTimer
  \/ Load
  \/ Reset

SpecPatch == Init /\ [][NextPatch]_vars

\* ====================================================================
\* rd03e_scope.py: the same code, one shared-memory access per step
\* ====================================================================

\* The order in which counts_reset writes, and diag reads, the counters and
\* the last event.
ResetOrder ==
  <<"count_A2B", "count_B2A", "count_total", "count_other", "last_event">>

ResetValue(k) == IF k = "last_event" THEN ClearedEvent ELSE 0

\* counts_reset, one assignment to STATE at a time; it takes no lock.
CountsResetStep ==
  /\ rpc = 0 => cmds < MaxCmds
  /\ State' = [State EXCEPT ![ResetOrder[rpc + 1]] = ResetValue(ResetOrder[rpc + 1])]
  /\ rpc' = (rpc + 1) % Len(ResetOrder)
  /\ cmds' = IF rpc = 0 THEN cmds + 1 ELSE cmds
  /\ UNCHANGED <<clock, DIR, last_emit_ts, ENG_HIST, CONFIG, save_timer, samples,
                 prev_cross, wpc, wtmp, wev, snap, diags, wnow>>
  /\ UNCHANGED <<pairVars, trigVars, ioVars>>

\* diag, one STATE.get at a time; the counters are read outside DIR_LOCK.
DiagStep ==
  LET cur == IF Len(snap) = Len(ResetOrder) THEN <<>> ELSE snap IN
  /\ Len(cur) = 0 => diags < MaxDiag
  /\ snap' = Append(cur, State[ResetOrder[Len(cur) + 1]])
  /\ diags' = IF Len(cur) = 0 THEN diags + 1 ELSE diags
  /\ UNCHANGED <<clock, scopeVars, wpc, wtmp, wev, rpc, wnow>>
  /\ UNCHANGED <<pairVars, trigVars, ioVars>>

\* A reader thread takes DIR_LOCK in _emit_dir_edge and runs it up to the
\* classification of an accepted crossing (lines 433-501).  DIR_LOCK keeps
\* the other reader out until the thread is back at "idle".
WorkerEnter(side) ==
  /\ wpc = "idle"
  /\ IF Debounced(side, clock)
     THEN /\ UNCHANGED <<last_emit_ts, DIR, prev_cross, wpc, wev>>
     ELSE LET r == DirDecide(DIR, State, side, clock) IN
          /\ last_emit_ts' = [last_emit_ts EXCEPT ![side] = clock]
          /\ DIR' = r.dir
          /\ prev_cross' = IF r.accepted
                           THEN [t |-> clock, refract |-> State.refract]
                           ELSE prev_cross
          /\ wev' = IF r.accepted
                    THEN Classify(r.dir, State, ENG_HIST, clock) ELSE wev
          /\ wpc' = IF r.accepted THEN "read_dir" ELSE "idle"
  /\ UNCHANGED <<clock, State, ENG_HIST, CONFIG, save_timer, cmds, samples,
                 wtmp, rpc, snap, diags, wnow>>
  /\ UNCHANGED <<pairVars, trigVars, ioVars>>

\* The counter the thread inside lines 503-510 is working on.
WKey == IF wpc \in {"read_dir", "write_dir"} THEN DirCounter(wev) ELSE ClassCounter(wev)

\* int(STATE.get(key, 0)) of lines 504, 506, 508, 510.
WorkerRead ==
  /\ wpc \in {"read_dir", "read_cls"}
  /\ wtmp' = State[WKey]
  /\ wpc' = IF wpc = "read_dir" THEN "write_dir" ELSE "write_cls"
  /\ UNCHANGED <<clock, scopeVars, wev, rpc, snap, diags, wnow>>
  /\ UNCHANGED <<pairVars, trigVars, ioVars>>

\* STATE[key] = ... + 1 of the same lines.
WorkerWrite ==
  /\ wpc \in {"write_dir", "write_cls"}
  /\ State' = [State EXCEPT ![WKey] = wtmp + 1]
  /\ wtmp' = 0
  /\ wpc' = IF wpc = "write_dir" THEN "read_cls" ELSE "store_evt"
  /\ UNCHANGED <<clock, DIR, last_emit_ts, ENG_HIST, CONFIG, save_timer, cmds,
                 samples, prev_cross, wev, rpc, snap, diags, wnow>>
  /\ UNCHANGED <<pairVars, trigVars, ioVars>>

\* STATE["last_event"] = {...} of lines 512-518, then the lock is released.
WorkerStoreEvent ==
  /\ wpc = "store_evt"
  /\ State' = [State EXCEPT !.last_event = wev]
  /\ wpc' = "idle"
  /\ UNCHANGED <<clock, DIR, last_emit_ts, ENG_HIST, CONFIG, save_timer, cmds,
                 samples, prev_cross, wtmp, wev, rpc, snap, diags, wnow>>
  /\ UNCHANGED <<pairVars, trigVars, ioVars>>

\* The event an earlier run retained and saved.
PastEvent ==
  [dir |-> "B2A", t |-> 1, dt |-> 1, speed_mps |-> SpeedOf(762, 1),
   peak_me_A |-> 60, peak_me_B |-> 60, duration_s |-> 6, class |-> "car"]

\* A config file saved by an earlier run after it had counted crossings:
\* the counters and the last event are public keys, so they are in it.
BootCounted ==
  [BootConfig EXCEPT !.count_A2B = 1, !.count_B2A = 1, !.count_total = 1,
                     !.count_other = 1, !.last_event = PastEvent]

InitCounted ==
  /\ clock = Epoch
  /\ State = BootCounted
  /\ DIR = DIR_INIT
  /\ last_emit_ts = [s \in Sides |-> 0]
  /\ ENG_HIST = [s \in Sides |-> <<>>]
  /\ CONFIG = BootCounted
  /\ save_timer = FALSE
  /\ cmds = 0
  /\ samples = 0
  /\ prev_cross = [t |-> NoneV, refract |-> 0]
  /\ InitConc
  /\ InitPair(ARGS)
  /\ InitTrig
  /\ InitIO

\* Line 433: now = time.time(), read before DIR_LOCK is asked for.
WorkerNow(side) ==
  /\ wnow[side] = NoneV
  /\ wnow' = [wnow EXCEPT ![side] = clock]
  /\ UNCHANGED <<clock, scopeVars, wpc, wtmp, wev, rpc, snap, diags>>
  /\ UNCHANGED <<pairVars, trigVars, ioVars>>

\* Lines 434-536: the reader gets DIR_LOCK and runs the body with the
\* time it read before; the other reader is kept out until the end.
WorkerLocked(side) ==
  /\ wnow[side] # NoneV
  /\ EmitCoreAt(side, wnow[side])
  /\ wnow' = [wnow EXCEPT ![side] = NoneV]
  /\ UNCHANGED <<clock, ENG_HIST, CONFIG, save_timer, cmds, samples,
                 wpc, wtmp, wev, rpc, snap, diags>>
  /\ UNCHANGED <<pairVars, trigVars, ioVars>>

\* Both readers calling _emit_dir_edge while time passes.
NextLock ==
  \/ Tick
  \/ \E side \in Sides : WorkerNow(side)
  \/ \E side \in Sides : WorkerLocked(side)

SpecLock == Init /\ [][NextLock]_vars

NextConc ==
  \/ Tick
  \/ \E side \in Sides : WorkerEnter(side)
  \/ WorkerRead
  \/ WorkerWrite
  \/ WorkerStoreEvent
  \/ CountsResetStep
  \/ DiagStep

SpecConc == InitCounted /\ [][NextConc]_vars

\* ====================================================================
\* rd03e_scope.py: SerialReader.run and SerialReader._update_trigger
\* ====================================================================

TrigKey(side) == IF side = "A" THEN "trigA" ELSE "trigB"
HysKey(side) == IF side = "A" THEN "hysA" ELSE "hysB"
HoldKey(side) == IF side = "A" THEN "holdA" ELSE "holdB"

\* (1 - alpha) * old + alpha * x with alpha in hundredths; distances are
\* truncated by int(), energies are whole numbers with ld_alpha 1.0 or 0.
Smooth(alpha, old, x) == ((100 - alpha) * old + alpha * x) \div 100

\* Lines 704-718: the smoothed report after a raw report (me, md, se, sd).
SmoothReport(st, cur, me, md, se, sd) ==
  LET c1 == IF me >= st.min_energy /\ md # NoneV
            THEN [cur EXCEPT
                    !.move_energy = Smooth(st.ld_alpha, cur.move_energy, me),
                    !.move_dist = Smooth(st.ld_alpha,
                                         IF cur.move_dist # NoneV THEN cur.move_dist ELSE md,
                                         md)]
            ELSE cur
  IN IF se >= st.min_energy /\ sd # NoneV
     THEN [c1 EXCEPT
             !.still_energy = Smooth(st.ld_alpha, c1.still_energy, se),
             !.still_dist = Smooth(st.ld_alpha,
                                   IF c1.still_dist # NoneV THEN c1.still_dist ELSE sd,
                                   sd)]
     ELSE c1

\* The entries of dist_ring the trigger reads are the last and the third
\* from last; the model keeps the last three of the 48.
RingAppend(ring, x) ==
  IF Len(ring) >= 3 THEN Append(Tail(ring), x) ELSE Append(ring, x)

\* A learner that starts afresh at every quiet sample.
UpdateMeStats_Forget(r, me) ==
  [r EXCEPT !.me_n = 1, !.me_sum = me, !.me_sumsq = me * me]

\* _update_me_stats
UpdateMeStats(r, me) ==
  [r EXCEPT !.me_n = @ + 1, !.me_sum = @ + me, !.me_sumsq = @ + me * me]

\* A spike test without the step: the deviation alone.
ZOk_DevOnly(st, r, me_s) ==
  LET n == IF r.me_n = 0 THEN 1 ELSE r.me_n
      L == n * me_s - r.me_sum
      M == r.me_n * r.me_sumsq - r.me_sum * r.me_sum
  IN /\ L >= st.k_sigma * st.sigma_floor * n
     /\ (r.me_n > 2 /\ M > 0)
          => (L >= 0 /\ L * L * (r.me_n - 1) >= st.k_sigma * st.k_sigma * r.me_n * M)

\* A spike test without the deviation: the step alone.
ZOk_StepOnly(st, r, me_s) == (me_s - r.last_me) >= st.dz_min

\* Lines 572-582: (me_s - me_mean) >= k_sigma * max(sd, sigma_floor) and
\* the step from the previous sample is at least dz_min, in integers:
\* with L = me_n * me_s - me_sum and M = me_n * me_sumsq - me_sum^2,
\* me_s - me_mean = L / me_n and sd^2 = M / (me_n * (me_n - 1)).
ZOk(st, r, me_s) ==
  LET n == IF r.me_n = 0 THEN 1 ELSE r.me_n
      L == n * me_s - r.me_sum
      M == r.me_n * r.me_sumsq - r.me_sum * r.me_sum
      step_ok == (me_s - r.last_me) >= st.dz_min
  IN /\ L >= st.k_sigma * st.sigma_floor * n
     /\ (r.me_n > 2 /\ M > 0)
          => (L >= 0 /\ L * L * (r.me_n - 1) >= st.k_sigma * st.k_sigma * r.me_n * M)
     /\ step_ok

\* Lines 584-588
WaveOk(st, ring) ==
  /\ Len(ring) >= 3
  /\ Abs(ring[Len(ring)] - ring[Len(ring) - 2]) >= st.wave_cm

\* A trigger that always takes the channel for occupied.
IsPresent_Always(st, se_s) == TRUE

\* Lines 569-570: presence = se_s >= presence_se_min.
IsPresent(st, se_s) == se_s >= st.presence_se_min

\* Mutant of LevelOff: the hysteresis is ignored.
LevelOff_NoHys(me_s, trig, hys, hold, now, last_valid_ts) ==
  (me_s < trig) /\ ((now - last_valid_ts) > hold)

\* Lines 593 and 601: below the release level and the hold time over.
LevelOff(me_s, trig, hys, hold, now, last_valid_ts) ==
  (me_s < Max2(0, trig - hys)) /\ ((now - last_valid_ts) > hold)

\* Mutant of Latch: the previous state is not kept.
Latch_Forget(prev_on, on, off) == on

\* Lines 594, 602, 607: the two-state latch.
Latch(prev_on, on, off) == (prev_on /\ ~off) \/ (~prev_on /\ on)

\* Mutant of EdgeForwarded: every rising edge is forwarded.
EdgeForwarded_AnyRise(prev, new_on, m_on) == ~prev /\ new_on

\* Line 646: the rising edges that call _emit_dir_edge.
EdgeForwarded(prev, new_on, m_on) == ~prev /\ new_on /\ m_on

\* _update_trigger for the smoothed sample in ld_s[side], reader state r
\* (statistics and ring already updated), when the port is not borrowed:
\* the new reader state and whether a rising edge goes to the pairer.
TrigEval(side, st, r, lds, now) ==
  LET me_s == lds.move_energy
      se_s == lds.still_energy
      mode == st.trig_mode
      source == st.trig_source
      min_e == st.min_energy
      mov_trig == st[TrigKey(side)]
      mov_hys == st[HysKey(side)]
      mov_hold == st[HoldKey(side)]
      prev == r.trig_on
      presence == IsPresent(st, se_s)
      z_ok == ZOk(st, r, me_s)
      wave_ok == WaveOk(st, r.dist_ring)
      spike_on == (z_ok \/ wave_ok) /\ me_s >= min_e
      plain_on == (me_s >= mov_trig) \/ (z_ok /\ me_s >= min_e)
      active_moving ==
        /\ source \in {"moving", "either", "both"}
        /\ IF mode = "level" THEN me_s >= min_e
           ELSE IF presence THEN spike_on ELSE plain_on
      active_still ==
        /\ source \in {"still", "either", "both"}
        /\ se_s * 5 >= Max2(min_e * 5, mov_trig)
      active_sample == active_moving \/ active_still
      lv == IF active_sample THEN now ELSE r.last_valid_ts
      m_on == IF mode = "level"
              THEN Latch(prev, me_s >= mov_trig,
                         LevelOff(me_s, mov_trig, mov_hys, mov_hold, now, lv))
              ELSE IF presence
              THEN Latch(prev, spike_on,
                         (~z_ok /\ ~wave_ok) /\ ((now - lv) > mov_hold))
              ELSE Latch(prev, plain_on,
                         LevelOff(me_s, mov_trig, mov_hys, mov_hold, now, lv))
      s_on == Latch(prev, se_s >= mov_trig,
                    LevelOff(se_s, mov_trig, mov_hys, mov_hold, now, lv))
      new_on == CASE source = "moving" -> m_on
                  [] source = "still" -> s_on
                  [] source = "either" -> (m_on \/ s_on)
                  [] OTHER -> (m_on /\ s_on)
  IN [rs |-> [r EXCEPT !.last_valid_ts = lv, !.trig_on = new_on, !.last_me = me_s],
      m_on |-> m_on,
      edge |-> EdgeForwarded(prev, new_on, m_on)]

\* Line 662: while RUNNING and not self._stop.is_set().
Looping(side) == RUNNING /\ ~stop_ev[<<"scope", side>>]

\* SerialReader.run from the borrow check to the smoothed report: a chunk
\* whose last report is (me, md, se, sd) is read and smoothed.  The radar
\* sends at most one report per tick.
ReaderRead(side, me, md, se, sd) ==
  /\ rdpc[side] = "read"
  /\ Looping(side)
  /\ ~borrowed[side]
  /\ rs[side].last_update_ts # clock
  /\ ld_raw' = [ld_raw EXCEPT ![side] =
                   [move_energy |-> me, move_dist |-> md,
                    still_energy |-> se, still_dist |-> sd]]
  /\ ld_s' = [ld_s EXCEPT ![side] = SmoothReport(State, @, me, md, se, sd)]
  /\ rdpc' = [rdpc EXCEPT ![side] = "trigger"]
  /\ UNCHANGED <<clock, scopeVars, concVars, pairVars, rs, borrowed,
                 tx, sm, rbuf, line, xbuf, xout, ema, appVars, runVars>>

\* _update_trigger and the rest of the chunk's handling in run.
ReaderTrigger(side) ==
  /\ rdpc[side] = "trigger"
  /\ LET me_s == ld_s[side].move_energy
         md_s == ld_s[side].move_dist
         r1 == IF md_s # NoneV
               THEN [rs[side] EXCEPT !.dist_ring = RingAppend(@, md_s)]
               ELSE rs[side]
         r2 == IF me_s < Max2(State.min_energy, 10) THEN UpdateMeStats(r1, me_s) ELSE r1
         e == TrigEval(side, State, r2, ld_s[side], clock)
     IN IF borrowed[side]
        THEN /\ rs' = [rs EXCEPT ![side] = [r2 EXCEPT !.last_update_ts = clock]]
             /\ UNCHANGED <<last_emit_ts, DIR, State, prev_cross>>
        ELSE /\ rs' = [rs EXCEPT ![side] = [e.rs EXCEPT !.last_update_ts = clock]]
             /\ IF e.edge
                THEN EmitCore(side)
                ELSE UNCHANGED <<last_emit_ts, DIR, State, prev_cross>>
  /\ rdpc' = [rdpc EXCEPT ![side] = "read"]
  /\ UNCHANGED <<clock, ENG_HIST, CONFIG, save_timer, cmds, samples, concVars,
                 pairVars, ioVars, ld_s, borrowed>>

\* _txrx takes the borrow lock of a side ...
MacroBegin(side) ==
  /\ ~borrowed[side]
  /\ borrowed' = [borrowed EXCEPT ![side] = TRUE]
  /\ UNCHANGED <<clock, scopeVars, concVars, pairVars, ioVars, ld_s, rs, rdpc>>

\* ... and releases it.
MacroEnd(side) ==
  /\ borrowed[side]
  /\ borrowed' = [borrowed EXCEPT ![side] = FALSE]
  /\ UNCHANGED <<clock, scopeVars, concVars, pairVars, ioVars, ld_s, rs, rdpc>>

\* A config file with no smoothing lag (ld_alpha 1.0), a hold of one tick
\* and the given trigger mode and source.
TrigBoot(mode, source) ==
  [BootConfig EXCEPT !.ld_alpha = 100, !.holdA = 1, !.holdB = 1,
                     !.trig_mode = mode, !.trig_source = source]

InitReaders(modes, sources) ==
  /\ clock = Epoch
  /\ \E mode \in modes : \E source \in sources : InitScopeWith(TrigBoot(mode, source))
  /\ InitConc
  /\ InitPair(ARGS)
  /\ InitTrig
  /\ InitIO

\* The readers whose port opened: B's open() failed and its run() returned
\* at once, A's reader runs.
OpenSides == {"A"}

\* Reports of the radar: moving energy, still energy, distances in cm.
LevelEnergies == {0, 20, 32, 38}
OscEnergies == {32, 38}
StillEnergies == {0, 40}
Dists == {100, 120}

\* Level mode, every moving energy, min_energy tuned live, config macros.
NextTrig ==
  \/ Tick
  \/ \E side \in OpenSides : \E me \in LevelEnergies : \E se \in StillEnergies :
       ReaderRead(side, me, 100, se, 100)
  \/ \E side \in OpenSides : ReaderTrigger(side)
  \/ \E side \in OpenSides : MacroBegin(side)
  \/ \E side \in OpenSides : MacroEnd(side)
  \/ \E v \in PatchValues("min_energy") : StatePatch("min_energy", v)

SpecTrig == InitReaders({"level"}, {"moving", "either"}) /\ [][NextTrig]_vars

\* Both modes, moving energy alternating around trigA = trigB = 35 inside
\* the hysteresis band (35 - 3 and 35 + 3, hysteresis 5): with ld_alpha 1.0
\* the smoothed energy is the previous report's, and the next one differs.
NextOsc ==
  \/ Tick
  \/ \E side \in OpenSides : \E me \in OscEnergies \ {ld_s[side].move_energy} :
       \E se \in StillEnergies : \E md \in Dists : ReaderRead(side, me, md, se, 100)
  \/ \E side \in OpenSides : ReaderTrigger(side)
  \/ \E side \in OpenSides : MacroBegin(side)
  \/ \E side \in OpenSides : MacroEnd(side)

SpecOsc == InitReaders({"level", "spike"}, {"moving", "either"}) /\ [][NextOsc]_vars

\* Spike mode: moving energies below min_energy (3), in the band the
\* noise statistics learn from (9), and above it, below and above trigA;
\* still energy below min_energy, below and above presence_se_min; sigma_floor as shipped
\* and low enough for the learned deviation to count; trigger source
\* moving and either; config macros borrowing the port.
SpikeEnergies == {3, 9, 16, 20, 38}
SpikeStill == {0, 10, 40}
SigmaFloors == {1, 6}

InitSpike ==
  /\ clock = Epoch
  /\ \E sf \in SigmaFloors : \E source \in {"moving", "either"} :
       InitScopeWith([TrigBoot("spike", source) EXCEPT !.sigma_floor = sf])
  /\ InitConc
  /\ InitPair(ARGS)
  /\ InitTrig
  /\ InitIO

NextSpike ==
  \/ Tick
  \/ \E side \in OpenSides : \E me \in SpikeEnergies : \E se \in SpikeStill :
       ReaderRead(side, me, 100, se, 100)
  \/ \E side \in OpenSides : ReaderTrigger(side)
  \/ \E side \in OpenSides : MacroBegin(side)
  \/ \E side \in OpenSides : MacroEnd(side)

SpecSpike == InitSpike /\ [][NextSpike]_vars

\* A target that passes the radar and leaves: up to the tick LeaveAt the
\* reports carry a moving energy above trigA, after it a moving energy
\* below min_energy (0, or 3 with the last distance).
LeaveAt == Epoch + 1

LeaveReports(now) ==
  IF now <= LeaveAt
  THEN [move_energy : {38}, move_dist : Dists, still_energy : StillEnergies,
        still_dist : {100}]
  ELSE [move_energy : {0, 3}, move_dist : {100}, still_energy : StillEnergies,
        still_dist : {100}]

NextLeave ==
  \/ Tick
  \/ \E side \in OpenSides : \E r \in LeaveReports(clock) :
       ReaderRead(side, r.move_energy, r.move_dist, r.still_energy, r.still_dist)
  \/ \E side \in OpenSides : ReaderTrigger(side)

\* Time passes, and the reader's thread is given the processor.
FairLeave ==
  /\ WF_vars(Tick)
  /\ \A side \in OpenSides :
       WF_vars((\E r \in LeaveReports(clock) :
                  ReaderRead(side, r.move_energy, r.move_dist, r.still_energy,
                             r.still_dist))
               \/ ReaderTrigger(side))

SpecLeave ==
  InitReaders({"level", "spike"}, {"moving"}) /\ [][NextLeave]_vars /\ FairLeave

\* ====================================================================
\* rd03e_two_sensor_counter.py
\* ====================================================================

\* No event returned by BurstDetector.update.
NoBurst == [sensor |-> "None", start_t |-> 0, peak_t |-> 0, peak_amp |-> 0, end_t |-> 0]

\* A detector that ends a burst as soon as the magnitude is below
\* trig_off, however short the burst.
BurstUpdate_NoMinsep(name, d, mag, ts) ==
  IF ~d.in_burst
  THEN IF mag >= args.trig_on /\ (ts - d.last_emit_t) >= args.refract
       THEN [det |-> [d EXCEPT !.in_burst = TRUE, !.start_t = ts, !.peak_t = ts,
                               !.peak_amp = mag],
             ev |-> NoBurst]
       ELSE [det |-> d, ev |-> NoBurst]
  ELSE LET d1 == IF mag > d.peak_amp
                 THEN [d EXCEPT !.peak_amp = mag, !.peak_t = ts] ELSE d
       IN IF mag * 10 < args.trig_off10
          THEN [det |-> [d1 EXCEPT !.in_burst = FALSE, !.last_emit_t = ts,
                                   !.peak_amp = 0, !.peak_t = ts],
                ev |-> [sensor |-> name, start_t |-> d1.start_t, peak_t |-> d1.peak_t,
                        peak_amp |-> d1.peak_amp, end_t |-> ts]]
          ELSE [det |-> d1, ev |-> NoBurst]

\* BurstDetector.update from the magnitude mag = |val - mu| on: the new
\* detector and the event returned.  peak_val and peak_sign, which are
\* only logged, are left out.
BurstUpdate(name, d, mag, ts) ==
  IF ~d.in_burst
  THEN IF mag >= args.trig_on /\ (ts - d.last_emit_t) >= args.refract
       THEN [det |-> [d EXCEPT !.in_burst = TRUE, !.start_t = ts, !.peak_t = ts,
                               !.peak_amp = mag],
             ev |-> NoBurst]
       ELSE [det |-> d, ev |-> NoBurst]
  ELSE LET d1 == IF mag > d.peak_amp
                 THEN [d EXCEPT !.peak_amp = mag, !.peak_t = ts] ELSE d
       IN IF mag * 10 < args.trig_off10 /\ (ts - d1.start_t) >= args.minsep
          THEN [det |-> [d1 EXCEPT !.in_burst = FALSE, !.last_emit_t = ts,
                                   !.peak_amp = 0, !.peak_t = ts],
                ev |-> [sensor |-> name, start_t |-> d1.start_t, peak_t |-> d1.peak_t,
                        peak_amp |-> d1.peak_amp, end_t |-> ts]]
          ELSE [det |-> d1, ev |-> NoBurst]

\* Magnitudes |val - mu| a sample may show: below trig_off, at trig_on,
\* well above it.
MagLevels == {5, 12, 20}

\* RD03EReader.run decodes a frame of the wanted id: last_ts = time.time().
ReaderFrame(side) ==
  /\ wk[<<"cnt", side>>] = "loop"
  /\ ~stop_ev[<<"cnt", side>>]
  /\ rd_last_ts[side] # clock
  /\ rd_last_ts' = [rd_last_ts EXCEPT ![side] = clock]
  /\ UNCHANGED <<clock, scopeVars, concVars, trigVars, ioVars, args, det, q, inbound, outbound,
                 last_cross_t, mpc>>

\* time.sleep(0.005) of the main loop.
LoopSleep ==
  /\ mpc = "sleep"
  /\ mpc' = "update"
  /\ UNCHANGED <<clock, scopeVars, concVars, trigVars, ioVars, args, rd_last_ts, det, q, inbound,
                 outbound, last_cross_t>>

\* The A update and the B update of one loop iteration.
LoopUpdate ==
  /\ mpc = "update"
  /\ \E m \in [Sides -> MagLevels] :
       LET r == [s \in Sides |->
                   IF rd_last_ts[s] # 0
                   THEN BurstUpdate(s, det[s], m[s], rd_last_ts[s])
                   ELSE [det |-> det[s], ev |-> NoBurst]]
       IN /\ det' = [s \in Sides |-> r[s].det]
          /\ q' = [s \in Sides |->
                     IF r[s].ev # NoBurst THEN Append(q[s], r[s].ev) ELSE q[s]]
  /\ mpc' = "pairing"
  /\ UNCHANGED <<clock, scopeVars, concVars, trigVars, ioVars, args, rd_last_ts, inbound, outbound,
                 last_cross_t>>

\* The timestamp of an event used for pairing.
PairT(e) == IF args.pair_mode = "start" THEN e.start_t ELSE e.peak_t

\* Mutant of OutsideWindow: a gap equal to the window is dropped too.
OutsideWindow_Strict(dt_ab) == dt_ab >= args.pair

\* Line 288: the pair exceeds the pairing window.
OutsideWindow(dt_ab) == dt_ab > args.pair

\* Mutant of TooClose: the ambiguity guard is missing.
TooClose_Off(dt_ab) == FALSE

\* Line 297: the ambiguity guard.
TooClose(dt_ab) == dt_ab < args.min_dt

\* Mutant of AmpOk: the amplitude guard is missing.
AmpOk_Always(a, b) == TRUE

\* Lines 304-312: the amplitude guard, lead against lag.
AmpOk(a, b) ==
  IF PairT(a) < PairT(b)
  THEN a.peak_amp * 10 >= args.amp_ratio10 * b.peak_amp
  ELSE b.peak_amp * 10 >= args.amp_ratio10 * a.peak_amp

\* One iteration of `while qA and qB`.
PairStep ==
  /\ mpc = "pairing"
  /\ q["A"] # <<>> /\ q["B"] # <<>>
  /\ LET a == Head(q["A"])
         b == Head(q["B"])
         tA == PairT(a)
         tB == PairT(b)
         dt_ab == Abs(tA - tB)
         popA == [q EXCEPT !["A"] = Tail(@)]
         popB == [q EXCEPT !["B"] = Tail(@)]
         popBoth == [s \in Sides |-> Tail(q[s])]
         amp_ok == AmpOk(a, b)
         t_cross == Max2(a.peak_t, b.peak_t)
     IN IF OutsideWindow(dt_ab)
        THEN /\ q' = IF tA < tB THEN popA ELSE popB
             /\ UNCHANGED <<inbound, outbound, last_cross_t>>
        ELSE IF TooClose(dt_ab)
        THEN /\ q' = popBoth
             /\ UNCHANGED <<inbound, outbound, last_cross_t>>
        ELSE IF ~amp_ok
        THEN /\ q' = popBoth
             /\ UNCHANGED <<inbound, outbound, last_cross_t>>
        ELSE IF (t_cross - last_cross_t) < args.refract
        THEN /\ q' = IF a.peak_t < b.peak_t THEN popA ELSE popB
             /\ UNCHANGED <<inbound, outbound, last_cross_t>>
        ELSE /\ last_cross_t' = t_cross
             /\ inbound' = IF tA < tB THEN inbound + 1 ELSE inbound
             /\ outbound' = IF tA < tB THEN outbound ELSE outbound + 1
             /\ q' = popBoth
  /\ UNCHANGED <<clock, scopeVars, concVars, trigVars, ioVars, args, rd_last_ts, det, mpc>>

\* The while loop ends: a queue is empty.
PairDone ==
  /\ mpc = "pairing"
  /\ q["A"] = <<>> \/ q["B"] = <<>>
  /\ mpc' = "sleep"
  /\ UNCHANGED <<clock, scopeVars, concVars, trigVars, ioVars, args, rd_last_ts, det, q, inbound,
                 outbound, last_cross_t>>

\* The command lines of the runs: 50 ms minsep and refractory, a 100 ms
\* pairing window, 50 ms min-dt, amplitude ratio 1.2, either pair mode.
ArgSets ==
  {[ARGS EXCEPT !.pair_mode = pm] : pm \in {"start", "peak"}}

InitCounter ==
  /\ clock = Epoch
  /\ InitScope
  /\ InitConc
  /\ InitTrig
  /\ InitIO
  /\ \E a \in ArgSets : InitPair(a)

NextPair ==
  \/ Tick
  \/ \E side \in Sides : ReaderFrame(side)
  \/ LoopSleep
  \/ LoopUpdate
  \/ PairStep
  \/ PairDone

SpecPair == InitCounter /\ [][NextPair]_vars

\* ====================================================================
\* The simple-shape decoders: rd03e_reader.py loop_frames,
\* rd03e_wave_single.py RD03EReader.run (the same state machine) and
\* rd03e_two_sensor_counter.py RD03EReader.run (buffer and find)
\* ====================================================================

MaxFrames == 2
MaxGarbage == 2
MaxLost == 2

\* Bytes: the sync byte 0xAA, the tail byte 0x55, the padding 0x00.
SYNC == 170
TAIL == 85
PAD == 0

\* Ids and values of the frames on the wire, and the garbage bytes.
FrameIds == {1, 2}
FrameVals == {7}
GarbageBytes == {SYNC, TAIL, PAD, 7}

\* The wanted channel of the counter's RD03EReader (want_id = 2).
WantId == 2

\* The seven bytes AA AA id val 00 55 55 of the frame f = <<id, val>>.
FrameBytes(f) == <<SYNC, SYNC, f[1], f[2], PAD, TAIL, TAIL>>

\* One pass of the `while True` body of loop_frames on the byte x.
SmStep(m, x) ==
  CASE m.state = 0 -> [m EXCEPT !.state = IF x = SYNC THEN 1 ELSE 0]
    [] m.state = 1 -> [m EXCEPT !.state = IF x = SYNC THEN 2 ELSE 0]
    [] m.state = 2 -> [m EXCEPT !.cur_id = x, !.state = 3]
    [] m.state = 3 -> [m EXCEPT !.cur_val = x, !.state = 4]
    [] m.state = 4 -> [m EXCEPT !.state = IF x = PAD THEN 5 ELSE 0]
    [] m.state = 5 -> [m EXCEPT !.state = IF x = TAIL THEN 6 ELSE 0]
    [] OTHER -> [m EXCEPT !.state = 0,
                          !.out = IF x = TAIL
                                  THEN Append(@, <<m.cur_id, m.cur_val>>) ELSE @]

\* buf.find(b'\xAA\xAA'): the least 1-based index, 0 when there is none.
FindSync(buf) ==
  LET hits == {i \in 1..(Len(buf) - 1) : buf[i] = SYNC /\ buf[i + 1] = SYNC}
  IN IF hits = {} THEN 0 ELSE CHOOSE i \in hits : \A j \in hits : i <= j

\* The inner `while True` of RD03EReader.run on the buffer.
RECURSIVE RdScan(_)
RdScan(r) ==
  LET i == FindSync(r.buf)
      n == Len(r.buf)
  IN IF i = 0
     THEN [r EXCEPT !.buf = IF n = 0 THEN <<>> ELSE <<r.buf[n]>>]
     ELSE IF n - (i - 1) < 7
     THEN [r EXCEPT !.buf = SubSeq(r.buf, i, n)]
     ELSE LET frame == SubSeq(r.buf, i, i + 6)
              rest == SubSeq(r.buf, i + 7, n)
              ok == frame[6] = TAIL /\ frame[7] = TAIL /\ frame[3] = WantId
          IN RdScan([buf |-> rest,
                     out |-> IF ok THEN Append(r.out, <<frame[3], frame[4]>>)
                             ELSE r.out])

\* ser.read(128) returns data: buf.extend(data) and the scan.
RdRead(r, data) == RdScan([r EXCEPT !.buf = @ \o data])

\* The byte x arrives at the decoders.
Deliver(x) ==
  /\ sm' = SmStep(sm, x)
  /\ rbuf' = RdRead(rbuf, <<x>>)

\* The radar sends a garbage byte between two frames.
WireGarbage(x) ==
  /\ tx.pos = 0
  /\ tx.garbage < MaxGarbage
  /\ tx' = [tx EXCEPT !.garbage = @ + 1]
  /\ Deliver(x)
  /\ UNCHANGED <<clock, scopeVars, concVars, pairVars, trigVars, line, xbuf, xout, ld_raw, ema, appVars, runVars>>

\* The radar starts the frame f.
WireFrameStart(f) ==
  /\ tx.pos = 0
  /\ Len(tx.sent) < MaxFrames
  /\ tx' = [tx EXCEPT !.cur = f, !.pos = 1]
  /\ Deliver(FrameBytes(f)[1])
  /\ UNCHANGED <<clock, scopeVars, concVars, pairVars, trigVars, line, xbuf, xout, ld_raw, ema, appVars, runVars>>

\* The radar sends the next byte of the frame it has started.
WireFrameByte ==
  /\ tx.pos > 0
  /\ tx' = IF tx.pos = 6
           THEN [tx EXCEPT !.sent = Append(@, tx.cur), !.pos = 0]
           ELSE [tx EXCEPT !.pos = @ + 1]
  /\ Deliver(FrameBytes(tx.cur)[tx.pos + 1])
  /\ UNCHANGED <<clock, scopeVars, concVars, pairVars, trigVars, line, xbuf, xout, ld_raw, ema, appVars, runVars>>

NextSimple ==
  \/ \E x \in GarbageBytes : WireGarbage(x)
  \/ \E id \in FrameIds : \E val \in FrameVals : WireFrameStart(<<id, val>>)
  \/ WireFrameByte

SpecSimple == Init /\ [][NextSimple]_vars

\* The rest of the frame the radar has started is lost on the line after
\* its value byte, its padding byte or its first tail byte got through:
\* the decoders then wait in the 00 slot or in a 55 slot.
WireFrameLost ==
  /\ tx.pos \in 4..6
  /\ tx.lost < MaxLost
  /\ tx' = [tx EXCEPT !.pos = 0, !.lost = @ + 1]
  /\ UNCHANGED <<clock, scopeVars, concVars, pairVars, trigVars, sm, rbuf,
                 line, xbuf, xout, ld_raw, ema, appVars, runVars>>

\* A line that loses the end of frames and adds no byte of its own.
NextLost ==
  \/ \E id \in FrameIds : \E val \in FrameVals : WireFrameStart(<<id, val>>)
  \/ WireFrameByte
  \/ WireFrameLost

SpecLost == Init /\ [][NextLost]_vars

\* ====================================================================
\* rd03e_scope.py: extract_report_frames, decode_report_frame
\* ====================================================================

HDR_RPT == <<244, 243, 242, 241>>
FTR_RPT == <<248, 247, 246, 245>>

\* The marker byte decode_report_frame scans for, and the type bytes it
\* skips after it.
MARK == 170
TypeBytes == {2, 3, 130, 131, 210, 218, 202, 234}

\* A find that returns the last occurrence instead of the first.
FindSeq_Last(buf, pat, from0) ==
  LET hits == {i \in (from0 + 1)..(Len(buf) - Len(pat) + 1) :
                 SubSeq(buf, i, i + Len(pat) - 1) = pat}
  IN IF hits = {} THEN 0 ELSE CHOOSE i \in hits : \A j \in hits : i >= j

\* buf.find(pat, from0): the least 1-based index >= from0 + 1 at which pat
\* occurs in buf, 0 when there is none.
FindSeq(buf, pat, from0) ==
  LET hits == {i \in (from0 + 1)..(Len(buf) - Len(pat) + 1) :
                 SubSeq(buf, i, i + Len(pat) - 1) = pat}
  IN IF hits = {} THEN 0 ELSE CHOOSE i \in hits : \A j \in hits : i <= j

\* A trim that keeps the oldest 64 bytes: del buf[64:].
TrimNoHeader_Head(buf) ==
  IF Len(buf) > 4096 THEN SubSeq(buf, 1, 64) ELSE buf

\* The trimmed buffer when no header is found: del buf[:-64] above 4096 bytes.
TrimNoHeader(buf) ==
  IF Len(buf) > 4096 THEN SubSeq(buf, Len(buf) - 63, Len(buf)) ELSE buf

\* Mutant of KeepFrom: the header is deleted with the bytes before it.
KeepFrom_DropHeader(buf, start) == SubSeq(buf, start + 4, Len(buf))

\* Lines 269-270: del buf[:start] for the 1-based index start of the header.
KeepFrom(buf, start) == SubSeq(buf, start, Len(buf))

\* extract_report_frames(buf): the frames returned and the buffer left.
RECURSIVE ExtractLoop(_, _)
ExtractLoop(buf, frames) ==
  LET start == FindSeq(buf, HDR_RPT, 0) IN
  IF start = 0
  THEN [frames |-> frames, buf |-> TrimNoHeader(buf)]
  ELSE LET b1 == KeepFrom(buf, start)
           e == FindSeq(b1, FTR_RPT, 4)
       IN IF e = 0
          THEN [frames |-> frames, buf |-> b1]
          ELSE ExtractLoop(SubSeq(b1, e + 4, Len(b1)),
                           Append(frames, SubSeq(b1, 1, e + 3)))

extract_report_frames(buf) == ExtractLoop(buf, <<>>)

\* _u16le(b, i) for the 1-based index i.
U16le(b, i) == b[i] + 256 * b[i + 1]

\* _energy8(x)
Energy8(x) == x % 128

\* The position after the marker at 1-based index i of body, the type
\* byte skipped.
GroupAt(body, i) ==
  IF i + 1 <= Len(body) /\ body[i + 1] \in TypeBytes THEN i + 2 ELSE i + 1

\* Mutant of GroupOk: the energies are not tested.
GroupOk_NoEnergy(body, j) ==
  /\ j + 5 <= Len(body)
  /\ U16le(body, j) <= 6000
  /\ U16le(body, j + 3) <= 6000

\* The group of six bytes at j is whole and in range.
GroupOk(body, j) ==
  /\ j + 5 <= Len(body)
  /\ U16le(body, j) <= 6000
  /\ U16le(body, j + 3) <= 6000
  /\ Energy8(body[j + 2]) <= 100
  /\ Energy8(body[j + 5]) <= 100

\* decode_report_frame(frame): the report, NoReport for None.
decode_report_frame(frame) ==
  IF ~(Len(frame) >= 4 /\ SubSeq(frame, 1, 4) = HDR_RPT
       /\ SubSeq(frame, Len(frame) - 3, Len(frame)) = FTR_RPT)
  THEN NoReport
  ELSE LET body == SubSeq(frame, 5, Len(frame) - 4)
           good == {i \in 1..Len(body) : body[i] = MARK /\ GroupOk(body, GroupAt(body, i))}
       IN IF Len(body) < 8 \/ good = {}
          THEN NoReport
          ELSE LET i == CHOOSE k \in good : \A m \in good : k <= m
                   j == GroupAt(body, i)
               IN [move_dist |-> U16le(body, j), move_energy |-> Energy8(body[j + 2]),
                   still_dist |-> U16le(body, j + 3), still_energy |-> Energy8(body[j + 5])]

\* A report frame: header, a body of marker, optional type byte, the two
\* groups (distance low, distance high, energy) and two trailing bytes,
\* footer.
ReportBytes(typed, d1, e1, d2, e2) ==
  HDR_RPT \o <<MARK>> \o (IF typed THEN <<2>> ELSE <<>>)
    \o <<d1 % 256, d1 \div 256, e1, d2 % 256, d2 \div 256, e2, 85, 0>> \o FTR_RPT

\* The values of the valid frames: type byte present, moving distance and
\* energy, still distance and energy.
ValidParams == {<<TRUE, 100, 50, 200, 30>>, <<FALSE, 120, 60, 150, 0>>}

\* Frames whose group is in range.
ValidFrames == {ReportBytes(v[1], v[2], v[3], v[4], v[5]) : v \in ValidParams}

\* A distance above 6000, an energy above 100, a body of three bytes.
InvalidFrames ==
  {ReportBytes(TRUE, 7000, 50, 200, 30), ReportBytes(FALSE, 120, 110, 150, 0),
   HDR_RPT \o <<MARK, 1, 2>> \o FTR_RPT}

\* Runs of bytes that are no frame: a data byte, half a header, a footer,
\* a header, a header followed by a marker and a group in range.
GarbageRuns ==
  {<<7>>, <<244, 243>>, FTR_RPT, HDR_RPT, HDR_RPT \o <<MARK, 10, 0, 20, 30, 0, 40>>}

MaxRptFrames == 1
MaxRptGarbage == 1

\* The radar of `side` sends a run of garbage between two frames.
RptGarbage(side, g) ==
  /\ tx.pos = 0
  /\ tx.garbage < MaxRptGarbage
  /\ tx' = [tx EXCEPT !.garbage = @ + 1]
  /\ line' = [line EXCEPT ![side] = @ \o g]
  /\ UNCHANGED <<clock, scopeVars, concVars, pairVars, trigVars, sm, rbuf, xbuf, xout, ld_raw, ema, appVars, runVars>>

\* Where a read may fall inside a frame of n bytes: inside the header,
\* after it, inside the body, inside the footer (and at the end).
Cuts(n) == {2, 4, 9, n - 2, n}

\* The first cut after the position pos of a frame of n bytes.
NextCut(n, pos) == CHOOSE c \in Cuts(n) : c > pos /\ \A d \in Cuts(n) : d > pos => c <= d

\* The radar starts the frame f (its bytes): the bytes up to the first cut.
RptFrameStart(side, f) ==
  /\ tx.pos = 0
  /\ Len(tx.sent) < MaxRptFrames
  /\ tx' = [tx EXCEPT !.cur = f, !.pos = NextCut(Len(f), 0)]
  /\ line' = [line EXCEPT ![side] = @ \o SubSeq(f, 1, NextCut(Len(f), 0))]
  /\ UNCHANGED <<clock, scopeVars, concVars, pairVars, trigVars, sm, rbuf, xbuf, xout, ld_raw, ema, appVars, runVars>>

\* The radar sends the bytes of the frame it has started up to the next cut.
RptFrameBytes(side) ==
  /\ tx.pos > 0
  /\ LET c == NextCut(Len(tx.cur), tx.pos)
     IN /\ tx' = IF c = Len(tx.cur)
                 THEN [tx EXCEPT !.sent = Append(@, tx.cur), !.pos = 0]
                 ELSE [tx EXCEPT !.pos = c]
        /\ line' = [line EXCEPT ![side] = @ \o SubSeq(tx.cur, tx.pos + 1, c)]
  /\ UNCHANGED <<clock, scopeVars, concVars, pairVars, trigVars, sm, rbuf, xbuf, xout, ld_raw, ema, appVars, runVars>>

\* The last report decoded from frames, NoReport when none decodes.
RECURSIVE LastRep(_)
LastRep(frames) ==
  IF frames = <<>> THEN NoReport
  ELSE LET r == decode_report_frame(frames[Len(frames)])
       IN IF r # NoReport THEN r ELSE LastRep(SubSeq(frames, 1, Len(frames) - 1))

\* One iteration of SerialReader.run that reads a chunk (all the bytes
\* waiting), up to the call of _update_trigger.
ReaderChunk(side) ==
  /\ rdpc[side] = "read"
  /\ Looping(side)
  /\ ~borrowed[side]
  /\ line[side] # <<>>
  /\ LET res == extract_report_frames(xbuf[side] \o line[side])
         last_rep == LastRep(res.frames)
     IN /\ line' = [line EXCEPT ![side] = <<>>]
        /\ xbuf' = [xbuf EXCEPT ![side] = res.buf]
        /\ xout' = [xout EXCEPT ![side] = @ \o res.frames]
        /\ IF last_rep # NoReport
           THEN /\ ld_raw' = [ld_raw EXCEPT ![side] = last_rep]
                /\ ld_s' = [ld_s EXCEPT ![side] =
                              SmoothReport(State, @, last_rep.move_energy, last_rep.move_dist,
                                           last_rep.still_energy, last_rep.still_dist)]
                /\ rdpc' = [rdpc EXCEPT ![side] = "trigger"]
                /\ UNCHANGED rs
           ELSE /\ rs' = [rs EXCEPT ![side].last_update_ts = clock]
                /\ UNCHANGED <<ld_raw, ld_s, rdpc>>
  /\ UNCHANGED <<clock, scopeVars, concVars, pairVars, borrowed, tx, sm, rbuf, ema, appVars, runVars>>

\* The scope's reader A from the bytes on its port to its trigger.
NextReport ==
  \/ \E side \in OpenSides : \E g \in GarbageRuns : RptGarbage(side, g)
  \/ \E side \in OpenSides : \E f \in ValidFrames \cup InvalidFrames : RptFrameStart(side, f)
  \/ \E side \in OpenSides : RptFrameBytes(side)
  \/ \E side \in OpenSides : ReaderChunk(side)
  \/ \E side \in OpenSides : ReaderTrigger(side)

SpecReport == InitReaders({"spike"}, {"moving"}) /\ [][NextReport]_vars

\* The runs of noise the line carries, and their lengths.
MaxNoiseRuns == 3
NoiseRuns == {70, 2000, 4097}

\* The byte of noise at position p of the line: no two neighbours are
\* equal and no header or footer is among them.
NoiseByte(p) == p % 239

\* The radar's line carries a run of n bytes of noise, or the first three
\* bytes of a header, which the noise never completes.
RptNoise(side, n) ==
  /\ tx.garbage < MaxNoiseRuns
  /\ tx' = [tx EXCEPT !.garbage = @ + 1, !.bytes = @ + n]
  /\ line' = [line EXCEPT ![side] =
                 @ \o (IF n = 3 THEN SubSeq(HDR_RPT, 1, 3)
                       ELSE [i \in 1..n |-> NoiseByte(tx.bytes + i)])]
  /\ UNCHANGED <<clock, scopeVars, concVars, pairVars, trigVars, sm, rbuf, xbuf, xout,
                 ld_raw, ema, appVars, runVars>>

\* The scope's reader A on a line that carries noise only.
NextNoise ==
  \/ \E side \in OpenSides : \E n \in NoiseRuns \cup {3} : RptNoise(side, n)
  \/ \E side \in OpenSides : ReaderChunk(side)

SpecNoise == InitReaders({"spike"}, {"moving"}) /\ [][NextNoise]_vars

\* ====================================================================
\* Start and stop of the workers: rd03e_scope.py main, _shutdown and
\* SerialReader.run; sensors.py Ld2410UsbReader.run;
\* rd03e_two_sensor_counter.py main and RD03EReader
\* ====================================================================

Scope(side) == <<"scope", side>>
Usb(side) == <<"usb", side>>
Cnt(side) == <<"cnt", side>>

\* serial.Serial(port, ...) at the places the programs call it: the
\* stream when the port can be opened.
Opened(w) == [ser EXCEPT ![w] = "open"]

\* if self._ser and self._ser.is_open: self._ser.close()
Closed(w) == [ser EXCEPT ![w] = IF @ = "open" THEN "closed" ELSE @]

\* SerialReader.run, lines 655-659: open(); when it raises, run returns.
ReaderOpen(side) ==
  /\ rdpc[side] = "new"
  /\ IF port_ok[Scope(side)]
     THEN ser' = Opened(Scope(side)) /\ rdpc' = [rdpc EXCEPT ![side] = "read"]
     ELSE ser' = ser /\ rdpc' = [rdpc EXCEPT ![side] = "done"]
  /\ UNCHANGED <<clock, scopeVars, concVars, pairVars, ld_s, rs, borrowed,
                 tx, sm, rbuf, line, xbuf, xout, ld_raw, ema, appVars,
                 RUNNING, port_ok, stop_ev, wk, errlog>>

\* Lines 665-668: a macro has borrowed the port; time.sleep(0.05).
ReaderIdle(side) ==
  /\ rdpc[side] = "read"
  /\ Looping(side)
  /\ borrowed[side]
  /\ rdpc' = [rdpc EXCEPT ![side] = "idle"]
  /\ UNCHANGED <<clock, scopeVars, concVars, pairVars, ioVars, ld_s, rs, borrowed>>

\* A reader whose run lets the exception of the read through: the thread
\* ends with its stream left open.
ReaderError_Fatal(side) ==
  /\ rdpc[side] = "read"
  /\ Looping(side)
  /\ ~borrowed[side]
  /\ errlog[Scope(side)] < MaxErrs
  /\ rdpc' = [rdpc EXCEPT ![side] = "done"]
  /\ errlog' = [errlog EXCEPT ![Scope(side)] = @ + 1]
  /\ UNCHANGED <<clock, scopeVars, concVars, pairVars, ld_s, rs, borrowed,
                 tx, sm, rbuf, line, xbuf, xout, ld_raw, ema, appVars,
                 RUNNING, port_ok, ser, stop_ev, wk>>

\* Lines 673 and 759-761: the read raises; the error is logged and the
\* reader sleeps 0.02 s.
ReaderError(side) ==
  /\ rdpc[side] = "read"
  /\ Looping(side)
  /\ ~borrowed[side]
  /\ errlog[Scope(side)] < MaxErrs
  /\ rdpc' = [rdpc EXCEPT ![side] = "backoff"]
  /\ errlog' = [errlog EXCEPT ![Scope(side)] = @ + 1]
  /\ UNCHANGED <<clock, scopeVars, concVars, pairVars, ld_s, rs, borrowed,
                 tx, sm, rbuf, line, xbuf, xout, ld_raw, ema, appVars,
                 RUNNING, port_ok, ser, stop_ev, wk>>

\* An exception in the handling of a report that has been smoothed, caught
\* at line 759.  _update_trigger raises either while it converts a tunable
\* (lines 553-581), after the distance ring and the noise statistics were
\* updated, or inside _emit_dir_edge at lines 438-441, after last_valid_ts
\* and the debounce stamp were written and before trig_on is (line 649).
ReaderProcError(side, place) ==
  /\ rdpc[side] = "trigger"
  /\ errlog[Scope(side)] < MaxErrs
  /\ LET me_s == ld_s[side].move_energy
         md_s == ld_s[side].move_dist
         r1 == IF md_s # NoneV
               THEN [rs[side] EXCEPT !.dist_ring = RingAppend(@, md_s)]
               ELSE rs[side]
         r2 == IF me_s < Max2(State.min_energy, 10) THEN UpdateMeStats(r1, me_s) ELSE r1
         e == TrigEval(side, State, r2, ld_s[side], clock)
     IN IF place = "tunable"
        THEN /\ rs' = [rs EXCEPT ![side] = r2]
             /\ UNCHANGED last_emit_ts
        ELSE /\ ~borrowed[side]
             /\ e.edge
             /\ ~Debounced(side, clock)
             /\ rs' = [rs EXCEPT ![side] = [r2 EXCEPT !.last_valid_ts = e.rs.last_valid_ts]]
             /\ last_emit_ts' = [last_emit_ts EXCEPT ![side] = clock]
  /\ rdpc' = [rdpc EXCEPT ![side] = "backoff"]
  /\ errlog' = [errlog EXCEPT ![Scope(side)] = @ + 1]
  /\ UNCHANGED <<clock, State, DIR, ENG_HIST, CONFIG, save_timer, cmds, samples,
                 prev_cross, concVars, pairVars, ld_s, borrowed,
                 tx, sm, rbuf, line, xbuf, xout, ld_raw, ema, appVars,
                 RUNNING, port_ok, ser, stop_ev, wk>>

\* The sleep of lines 667 and 761 is over: back to the test of line 662.
ReaderWake(side) ==
  /\ rdpc[side] \in {"idle", "backoff"}
  /\ rdpc' = [rdpc EXCEPT ![side] = "read"]
  /\ UNCHANGED <<clock, scopeVars, concVars, pairVars, ioVars, ld_s, rs, borrowed>>

\* Lines 662 and 763-767: the loop's test fails, the stream is closed and
\* run returns.
ReaderClose(side) ==
  /\ rdpc[side] = "read"
  /\ ~Looping(side)
  /\ ser' = Closed(Scope(side))
  /\ rdpc' = [rdpc EXCEPT ![side] = "done"]
  /\ UNCHANGED <<clock, scopeVars, concVars, pairVars, ld_s, rs, borrowed,
                 tx, sm, rbuf, line, xbuf, xout, ld_raw, ema, appVars,
                 RUNNING, port_ok, stop_ev, wk, errlog>>

\* _shutdown, lines 1433-1441: RUNNING = False and stop() of both readers.
Shutdown ==
  /\ \A side \in Sides : rdpc[side] # "off"
  /\ RUNNING
  /\ RUNNING' = FALSE
  /\ stop_ev' = [w \in Workers |-> IF w[1] = "scope" THEN TRUE ELSE stop_ev[w]]
  /\ UNCHANGED <<clock, scopeVars, concVars, pairVars, trigVars,
                 tx, sm, rbuf, line, xbuf, xout, ld_raw, ema, appVars, port_ok, ser, wk, errlog>>

\* Ld2410UsbReader.run, lines 132-137: the port is opened; when that
\* raises, run returns.
UsbOpen(side) ==
  /\ wk[Usb(side)] = "new"
  /\ IF port_ok[Usb(side)]
     THEN ser' = Opened(Usb(side)) /\ wk' = [wk EXCEPT ![Usb(side)] = "loop"]
     ELSE ser' = ser /\ wk' = [wk EXCEPT ![Usb(side)] = "done"]
  /\ UNCHANGED <<clock, scopeVars, concVars, pairVars, trigVars,
                 tx, sm, rbuf, line, xbuf, xout, ld_raw, ema, appVars,
                 RUNNING, port_ok, stop_ev, errlog>>

\* Lines 147 and 175-177: the read raises; time.sleep(0.5).
UsbError(side) ==
  /\ wk[Usb(side)] = "loop"
  /\ ~stop_ev[Usb(side)]
  /\ errlog[Usb(side)] < MaxErrs
  /\ wk' = [wk EXCEPT ![Usb(side)] = "backoff"]
  /\ errlog' = [errlog EXCEPT ![Usb(side)] = @ + 1]
  /\ UNCHANGED <<clock, scopeVars, concVars, pairVars, trigVars,
                 tx, sm, rbuf, line, xbuf, xout, ld_raw, ema, appVars,
                 RUNNING, port_ok, ser, stop_ev>>

\* The sleep is over: back to the test of line 142.
UsbWake(side) ==
  /\ wk[Usb(side)] = "backoff"
  /\ wk' = [wk EXCEPT ![Usb(side)] = "loop"]
  /\ UNCHANGED <<clock, scopeVars, concVars, pairVars, trigVars,
                 tx, sm, rbuf, line, xbuf, xout, ld_raw, ema, appVars,
                 RUNNING, port_ok, ser, stop_ev, errlog>>

\* Lines 142 and 179-185: the loop's test fails, the stream is closed.
UsbClose(side) ==
  /\ wk[Usb(side)] = "loop"
  /\ stop_ev[Usb(side)]
  /\ ser' = Closed(Usb(side))
  /\ wk' = [wk EXCEPT ![Usb(side)] = "done"]
  /\ UNCHANGED <<clock, scopeVars, concVars, pairVars, trigVars,
                 tx, sm, rbuf, line, xbuf, xout, ld_raw, ema, appVars,
                 RUNNING, port_ok, stop_ev, errlog>>

\* Ld2410UsbReader.stop, called by the owner of the thread.
UsbStop(side) ==
  /\ wk[Usb(side)] # "off"
  /\ ~stop_ev[Usb(side)]
  /\ stop_ev' = [stop_ev EXCEPT ![Usb(side)] = TRUE]
  /\ UNCHANGED <<clock, scopeVars, concVars, pairVars, trigVars,
                 tx, sm, rbuf, line, xbuf, xout, ld_raw, ema, appVars,
                 RUNNING, port_ok, ser, wk, errlog>>

\* The counter's main, lines 208-209: rdA = RD03EReader(...), then rdB.
\* The constructor opens the port (line 37); when that raises nothing
\* catches it and the program ends.
MainConstruct(side) ==
  /\ mpc = (IF side = "A" THEN "makeA" ELSE "makeB")
  /\ IF port_ok[Cnt(side)]
     THEN /\ ser' = Opened(Cnt(side))
          /\ wk' = [wk EXCEPT ![Cnt(side)] = "made"]
          /\ mpc' = (IF side = "A" THEN "makeB" ELSE "start")
     ELSE /\ ser' = ser
          /\ wk' = wk
          /\ mpc' = "crashed"
  /\ UNCHANGED <<clock, scopeVars, concVars, trigVars,
                 args, rd_last_ts, det, q, inbound, outbound, last_cross_t,
                 tx, sm, rbuf, line, xbuf, xout, ld_raw, ema, appVars,
                 RUNNING, port_ok, stop_ev, errlog>>

\* Lines 210-211: rdA.start(); rdB.start(); main goes on to its loop.
MainStart ==
  /\ mpc = "start"
  /\ wk' = [w \in DOMAIN wk |-> IF w[1] = "cnt" THEN "loop" ELSE wk[w]]
  /\ mpc' = "sleep"
  /\ UNCHANGED <<clock, scopeVars, concVars, trigVars,
                 args, rd_last_ts, det, q, inbound, outbound, last_cross_t,
                 tx, sm, rbuf, line, xbuf, xout, ld_raw, ema, appVars,
                 RUNNING, port_ok, ser, stop_ev, errlog>>

\* Lines 357-361: Ctrl+C in the loop; finally stops both readers and main
\* returns.
MainInterrupt ==
  /\ mpc \in {"sleep", "update", "pairing"}
  /\ stop_ev' = [w \in Workers |-> IF w[1] = "cnt" THEN TRUE ELSE stop_ev[w]]
  /\ mpc' = "exit"
  /\ UNCHANGED <<clock, scopeVars, concVars, trigVars,
                 args, rd_last_ts, det, q, inbound, outbound, last_cross_t,
                 tx, sm, rbuf, line, xbuf, xout, ld_raw, ema, appVars,
                 RUNNING, port_ok, ser, wk, errlog>>

\* main has returned: the interpreter ends, and with it the readers,
\* which are daemon threads (line 35), wherever they are.
ProcessEnd ==
  /\ mpc = "exit"
  /\ mpc' = "gone"
  /\ wk' = [w \in DOMAIN wk |->
              IF w[1] = "cnt" /\ wk[w] = "loop" THEN "killed" ELSE wk[w]]
  /\ UNCHANGED <<clock, scopeVars, concVars, trigVars,
                 args, rd_last_ts, det, q, inbound, outbound, last_cross_t,
                 tx, sm, rbuf, line, xbuf, xout, ld_raw, ema, appVars,
                 RUNNING, port_ok, ser, stop_ev, errlog>>

\* RD03EReader.run, line 49: self.ser.read raises; nothing catches it and
\* the thread ends.
CntReadError(side) ==
  /\ wk[Cnt(side)] = "loop"
  /\ ~stop_ev[Cnt(side)]
  /\ wk' = [wk EXCEPT ![Cnt(side)] = "dead"]
  /\ UNCHANGED <<clock, scopeVars, concVars, pairVars, trigVars,
                 tx, sm, rbuf, line, xbuf, xout, ld_raw, ema, appVars,
                 RUNNING, port_ok, ser, stop_ev, errlog>>

\* RD03EReader.run, line 48: the loop's test fails and run returns.
CntReturn(side) ==
  /\ wk[Cnt(side)] = "loop"
  /\ stop_ev[Cnt(side)]
  /\ wk' = [wk EXCEPT ![Cnt(side)] = "done"]
  /\ UNCHANGED <<clock, scopeVars, concVars, pairVars, trigVars,
                 tx, sm, rbuf, line, xbuf, xout, ld_raw, ema, appVars,
                 RUNNING, port_ok, ser, stop_ev, errlog>>

\* The programs, each a process of its own.
Programs == {"scope", "usb", "cnt"}

\* Which ports of a program can be opened: all of them, or all but one.
PortCases(prog) ==
  {[w \in Workers |-> TRUE]}
    \cup {[w \in Workers |-> w # bad] : bad \in {w \in Workers : w[1] = prog}}

\* One of the programs at its start: none of its threads has opened its
\* port, the counter's main is about to build its readers.  The threads
\* of the programs that were not started are "off".
InitRunOf(prog) ==
  /\ clock = Epoch
  /\ InitScopeWith(TrigBoot("level", "moving"))
  /\ InitConc
  /\ args = ARGS
  /\ rd_last_ts = [s \in Sides |-> 0]
  /\ det = [s \in Sides |-> DET_INIT]
  /\ q = [s \in Sides |-> <<>>]
  /\ inbound = 0 /\ outbound = 0 /\ last_cross_t = 0
  /\ mpc = (IF prog = "cnt" THEN "makeA" ELSE "off")
  /\ ld_s = [s \in Sides |-> LD_S_INIT]
  /\ rs = [s \in Sides |-> RS_INIT]
  /\ rdpc = [s \in Sides |-> IF prog = "scope" THEN "new" ELSE "off"]
  /\ borrowed = [s \in Sides |-> FALSE]
  /\ tx = TX_INIT /\ sm = SM_INIT /\ rbuf = RBUF_INIT
  /\ line = [s \in Sides |-> <<>>] /\ xbuf = [s \in Sides |-> <<>>]
  /\ xout = [s \in Sides |-> <<>>] /\ ld_raw = [s \in Sides |-> NoReport]
  /\ ema = EMA_INIT
  /\ InitApp
  /\ RUNNING = TRUE
  /\ port_ok \in PortCases(prog)
  /\ ser = [w \in Workers |-> "none"]
  /\ stop_ev = [w \in Workers |-> FALSE]
  /\ errlog = [w \in Workers |-> 0]
  /\ wk = [w \in {"usb", "cnt"} \X Sides |->
             IF w[1] # prog THEN "off" ELSE IF prog = "usb" THEN "new" ELSE "none"]

InitRun ==
  \E prog \in Programs : InitRunOf(prog)

\* A report with a moving target above the trigger level.
RunReport == [move_energy |-> 38, move_dist |-> 100, still_energy |-> 0, still_dist |-> 100]

NextRun ==
  \/ Tick
  \/ \E side \in Sides : ReaderOpen(side)
  \/ \E side \in Sides :
       ReaderRead(side, RunReport.move_energy, RunReport.move_dist,
                  RunReport.still_energy, RunReport.still_dist)
  \/ \E side \in Sides : ReaderTrigger(side)
  \/ \E side \in Sides : ReaderIdle(side)
  \/ \E side \in Sides : ReaderError(side)
  \/ \E side \in Sides : ReaderWake(side)
  \/ \E side \in Sides : ReaderClose(side)
  \/ \E side \in Sides : MacroBegin(side)
  \/ \E side \in Sides : MacroEnd(side)
  \/ Shutdown
  \/ \E side \in Sides : UsbOpen(side)
  \/ \E side \in Sides : UsbError(side)
  \/ \E side \in Sides : UsbWake(side)
  \/ \E side \in Sides : UsbClose(side)
  \/ \E side \in Sides : UsbStop(side)
  \/ \E side \in Sides : MainConstruct(side)
  \/ MainStart
  \/ \E side \in Sides : ReaderFrame(side)
  \/ MainInterrupt
  \/ ProcessEnd
  \/ \E side \in Sides : CntReadError(side)
  \/ \E side \in Sides : CntReturn(side)

\* Every thread that can take a step is given the processor in the end.
FairRun ==
  /\ \A side \in Sides :
       /\ WF_vars(ReaderOpen(side) \/ ReaderTrigger(side) \/ ReaderWake(side)
                  \/ ReaderClose(side))
       /\ WF_vars(UsbOpen(side) \/ UsbWake(side) \/ UsbClose(side))
       /\ WF_vars(CntReturn(side))
  /\ WF_vars(ProcessEnd)

SpecRun == InitRun /\ [][NextRun]_vars /\ FairRun

\* ====================================================================
\* Exceptions inside the loops of SerialReader.run (lines 662-761) and
\* of Ld2410UsbReader.run (lines 142-177)
\* ====================================================================

\* The reports the radar sends: a target above the trigger level, and
\* nothing.
ErrReports ==
  {RunReport, [move_energy |-> 0, move_dist |-> NoneV, still_energy |-> 0, still_dist |-> NoneV]}

\* The radar of side A sends reports and its port fails now and then;
\* the radar of side B is silent, so that its worker only waits.

\* Where the handling of a report raises.
ErrPlaces == {"tunable", "emit"}

InitErr ==
  \E prog \in {"scope", "usb"} : InitRunOf(prog)

NextErr ==
  \/ Tick
  \/ \E side \in Sides : ReaderOpen(side)
  \/ \E side \in OpenSides : \E r \in ErrReports :
       ReaderRead(side, r.move_energy, r.move_dist, r.still_energy, r.still_dist)
  \/ \E side \in OpenSides : ReaderTrigger(side)
  \/ \E side \in OpenSides : ReaderError(side)
  \/ \E side \in OpenSides : \E place \in ErrPlaces : ReaderProcError(side, place)
  \/ \E side \in Sides : ReaderWake(side)
  \/ \E side \in Sides : ReaderClose(side)
  \/ Shutdown
  \/ \E side \in Sides : UsbOpen(side)
  \/ \E side \in OpenSides : UsbError(side)
  \/ \E side \in Sides : UsbWake(side)
  \/ \E side \in Sides : UsbClose(side)
  \/ \E side \in Sides : UsbStop(side)

\* A thread that can take a step is given the processor in the end.
FairErr ==
  \A side \in Sides :
    /\ WF_vars(ReaderOpen(side) \/ ReaderTrigger(side) \/ ReaderWake(side)
               \/ ReaderClose(side))
    /\ WF_vars(UsbOpen(side) \/ UsbWake(side) \/ UsbClose(side))

SpecErr == InitErr /\ [][NextErr]_vars /\ FairErr

\* The step of a worker in which it caught an exception.
Caught(w) == errlog'[w] > errlog[w]

\* What a reader's trigger evaluation of the report at hand leaves.
Evaluated(side) ==
  LET me_s == ld_s[side].move_energy
      md_s == ld_s[side].move_dist
      r1 == IF md_s # NoneV
            THEN [rs[side] EXCEPT !.dist_ring = RingAppend(@, md_s)]
            ELSE rs[side]
      r2 == IF me_s < Max2(State.min_energy, 10) THEN UpdateMeStats(r1, me_s) ELSE r1
  IN [TrigEval(side, State, r2, ld_s[side], clock).rs EXCEPT !.last_update_ts = clock]

\* C21: an exception caught in a worker's loop leaves the worker in its
\* loop with its stream open, backing off, and that iteration changes no
\* trigger, no pending edge and no event; after the backoff the worker
\* reads again, and the report it then decodes is evaluated as any other;
\* a worker that opened its stream ends only when it was told to stop.
C21_ErrorSurvived ==
  /\ [][\A side \in Sides :
          /\ Caught(Scope(side)) =>
               /\ rdpc'[side] = "backoff"
               /\ ser'[Scope(side)] = "open"
               /\ rs'[side].trig_on = rs[side].trig_on
               /\ rs'[side].last_update_ts = rs[side].last_update_ts
               /\ DIR' = DIR /\ State' = State
          /\ Caught(Usb(side)) =>
               /\ wk'[Usb(side)] = "backoff"
               /\ ser'[Usb(side)] = "open"
          /\ (rdpc[side] = "backoff" /\ rdpc'[side] # "backoff") => rdpc'[side] = "read"
          /\ (wk[Usb(side)] = "backoff" /\ wk'[Usb(side)] # "backoff")
               => wk'[Usb(side)] = "loop"
          /\ (errlog[Scope(side)] > 0 /\ rdpc[side] = "trigger" /\ rdpc'[side] = "read"
                /\ ~borrowed[side])
               => rs'[side] = Evaluated(side)
          /\ (ser[Scope(side)] = "open" /\ rdpc[side] # "done" /\ rdpc'[side] = "done")
               => ~Looping(side)
          /\ (ser[Usb(side)] = "open" /\ wk[Usb(side)] # "done" /\ wk'[Usb(side)] = "done")
               => stop_ev[Usb(side)]]_vars
  /\ \A side \in Sides :
       /\ (rdpc[side] = "backoff") ~> (rdpc[side] = "read")
       /\ (wk[Usb(side)] = "backoff") ~> (wk[Usb(side)] = "loop")

\* After a caught exception the reader has read again and holds a decoded
\* report above the trigger level, about to be evaluated.
C21_Witness ==
  /\ errlog[Scope("A")] > 0
  /\ rdpc["A"] = "trigger"
  /\ ld_s["A"].move_energy >= State[TrigKey("A")]
  /\ ~rs["A"].trig_on

\* ====================================================================
\* The moving averages fed a constant: the smoothing of SerialReader.run
\* (lines 704-718) and the baseline of BurstDetector.update (124-127)
\* ====================================================================

\* Samples fed to one moving average.
MaxFeeds == 6

\* Energies and the baseline are floats; here they are counted in units
\* of 1 / EmaScale.  With alpha 0.5 or 1.0 every value after at most
\* MaxFeeds updates is a whole number of units, as it is an exact binary
\* fraction in the program.  Distances are whole centimetres (int()).
EmaScale == 2 ^ MaxFeeds

\* ld_alpha (a tunable of STATE) and --ema, in hundredths.
EmaAlphas == {50, 100}

\* Reports and values fed: moving energy below and above min_energy,
\* with and without a still target.
EmaReports ==
  [move_energy : {3, 60}, move_dist : {120}, still_energy : {30}, still_dist : {NoneV, 90}]
EmaVals == {30}

\* Smoothed reports and baselines left by earlier samples.
EmaStarts ==
  [move_energy : {0, 40 * EmaScale}, move_dist : {NoneV, 100, 130},
   still_energy : {0}, still_dist : {NoneV, 95}]
EmaBaselines == {NoneV, 10 * EmaScale, 50 * EmaScale}

InitEmaFeed ==
  ema \in {[EMA_INIT EXCEPT !.alpha = a, !.cur = c, !.mu = m, !.rep = r, !.val = v] :
             a \in EmaAlphas, c \in EmaStarts, m \in EmaBaselines,
             r \in EmaReports, v \in EmaVals}

\* Lines 704-718 on one more report with the same values.
FeedReport ==
  /\ ema.n < MaxFeeds
  /\ ema' = [ema EXCEPT
               !.cur = SmoothReport([ld_alpha |-> ema.alpha,
                                     min_energy |-> ema.min_energy * EmaScale],
                                    @, ema.rep.move_energy * EmaScale, ema.rep.move_dist,
                                    ema.rep.still_energy * EmaScale, ema.rep.still_dist),
               !.n = @ + 1]
  /\ UNCHANGED <<clock, scopeVars, concVars, pairVars, trigVars,
                 tx, sm, rbuf, line, xbuf, xout, ld_raw, runVars, appVars>>

\* BurstDetector.update, lines 124-127: the baseline after one more value.
BaselineUpdate(alpha, mu, val) ==
  IF mu = NoneV THEN val ELSE Smooth(alpha, mu, val)

FeedBurst ==
  /\ ema.k < MaxFeeds
  /\ ema' = [ema EXCEPT !.mu = BaselineUpdate(ema.alpha, @, ema.val * EmaScale),
                        !.k = @ + 1]
  /\ UNCHANGED <<clock, scopeVars, concVars, pairVars, trigVars,
                 tx, sm, rbuf, line, xbuf, xout, ld_raw, runVars, appVars>>

NextEma ==
  \/ FeedReport
  \/ FeedBurst

InitEma ==
  /\ clock = Epoch /\ InitScope /\ InitConc /\ InitPair(ARGS) /\ InitTrig
  /\ tx = TX_INIT /\ sm = SM_INIT /\ rbuf = RBUF_INIT
  /\ line = [s \in Sides |-> <<>>] /\ xbuf = [s \in Sides |-> <<>>]
  /\ xout = [s \in Sides |-> <<>>] /\ ld_raw = [s \in Sides |-> NoReport]
  /\ InitRunning
  /\ InitApp
  /\ InitEmaFeed

SpecEma == InitEma /\ [][NextEma]_vars

\* ====================================================================
\* Properties of the direction pairer, classifier and counters
\* ====================================================================

Counters == [k \in CounterKeys |-> State[k]]

\* A step that emits a DirectionEvent: DIR["last"], DIR["last_ts"] are written.
Accepted == DIR'.last_ts # DIR.last_ts

\* A step of an HTTP command.
IsCommand == cmds' # cmds

\* C2: while the refractory period of the last counted crossing runs, no
\* step of a reader changes a counter or emits a DirectionEvent; hence two
\* counted crossings are never less than the refractory time apart.
C2_Refractory ==
  [][ (/\ prev_cross.t # NoneV
       /\ clock - prev_cross.t < prev_cross.refract
       /\ ~IsCommand)
      => (Counters' = Counters /\ ~Accepted) ]_vars

\* C2 witness: after a counted crossing both readers delivered an edge, a
\* pairable distance apart, inside the refractory period, and nothing more
\* was counted.
C2_Witness ==
  /\ prev_cross.t # NoneV
  /\ \A s \in Sides : /\ last_emit_ts[s] > prev_cross.t
                       /\ last_emit_ts[s] < prev_cross.t + prev_cross.refract
  /\ last_emit_ts["A"] # last_emit_ts["B"]
  /\ Abs(last_emit_ts["A"] - last_emit_ts["B"]) <= State.pair
  /\ State.count_A2B + State.count_B2A = 1
  /\ cmds = 0

PeakReaches(hist, m) ==
  \/ m <= 0
  \/ \E s \in Sides : \E i \in 1..Len(hist[s]) :
        i > Len(hist[s]) - LookbackSamples /\ hist[s][i] >= m

C7_Original ==
  [][ \/ \A k \in CounterKeys : State'[k] \in {State[k], State[k] + 1}
      \/ /\ \A k \in CounterKeys : State'[k] = 0
         /\ State'.last_event = ClearedEvent ]_vars

\* --------------------------------------------------------------------
\* The guarded pairing loop of rd03e_two_sensor_counter.py

\* A step that examines the candidate pair at the heads of qA and qB.
Candidate == mpc = "pairing" /\ q' # q

\* The gap between the two edges of the candidate.
Gap == Abs(PairT(Head(q["A"])) - PairT(Head(q["B"])))

\* The lead (earlier) and the lag (later) edge of the candidate.
LeadEdge ==
  IF PairT(Head(q["A"])) < PairT(Head(q["B"])) THEN Head(q["A"]) ELSE Head(q["B"])

LagEdge ==
  IF PairT(Head(q["A"])) < PairT(Head(q["B"])) THEN Head(q["B"]) ELSE Head(q["A"])

\* The step counts nothing and emits nothing.
NoCrossing ==
  inbound' = inbound /\ outbound' = outbound /\ last_cross_t' = last_cross_t

\* Both edges of the candidate leave the queues.
BothConsumed == q' = [s \in Sides |-> Tail(q[s])]

\* C1: a candidate whose edges lie min_dt..pair_window apart, whose lead
\* peak is at least amp_ratio times the lag peak and which does not fall in
\* the refractory time of the last counted crossing is counted as exactly
\* one crossing from the channel that fired first to the one that fired
\* second, and both of its edges are consumed.
C1_PairAccepted ==
  [][ (/\ Candidate
       /\ args.min_dt <= Gap /\ Gap <= args.pair
       /\ LeadEdge.peak_amp * 10 >= args.amp_ratio10 * LagEdge.peak_amp
       /\ Max2(LeadEdge.peak_t, LagEdge.peak_t) - last_cross_t >= args.refract)
      => /\ LeadEdge.sensor = "A" => (inbound' = inbound + 1 /\ outbound' = outbound)
         /\ LeadEdge.sensor = "B" => (outbound' = outbound + 1 /\ inbound' = inbound)
         /\ last_cross_t' = Max2(LeadEdge.peak_t, LagEdge.peak_t)
         /\ BothConsumed ]_vars

\* C1 witness: the first burst of A (started at Epoch) and the first burst
\* of B (started one tick later) have been counted as one crossing A->B and
\* nothing is left queued.
C1_Witness ==
  /\ inbound = 1 /\ outbound = 0
  /\ det["A"].start_t = Epoch /\ det["B"].start_t = Epoch + 1
  /\ ~det["A"].in_burst /\ ~det["B"].in_burst
  /\ last_cross_t >= Epoch
  /\ q["A"] = <<>> /\ q["B"] = <<>>

SnapshotOf(st) == [i \in 1..Len(ResetOrder) |-> st[ResetOrder[i]]]

\* C5: counters-reset is atomic for readers and workers.  A snapshot taken
\* while no crossing has been accepted shows the counters and last event
\* either all as they were before the reset or all reset, never a mixture;
\* and a reader thread that adds one to a counter stores the successor of
\* the counter's current value, so a reset is never undone by the store.
C5_Original ==
  [][ /\ (Len(snap') = Len(ResetOrder) /\ snap' # snap /\ prev_cross'.t = NoneV)
         => snap' \in {SnapshotOf(BootCounted),
                       [i \in 1..Len(ResetOrder) |-> ResetValue(ResetOrder[i])]}
      /\ (wpc \in {"write_dir", "write_cls"} /\ wpc' # wpc)
         => State[WKey] = wtmp ]_vars


\* ====================================================================
\* Properties of the trigger
\* ====================================================================

\* A step that is _update_trigger on a chunk of reader s.
TriggerStep(s) == rdpc[s] = "trigger" /\ rdpc'[s] = "read"

\* Presence as the trigger update of reader s sees it.
Presence(s) == ld_s[s].still_energy >= State.presence_se_min

LastQualifying(s) ==
  IF ld_s[s].move_energy >= State.min_energy THEN clock ELSE rs[s].last_valid_ts

\* The level-mode rule on a trigger update of reader s.
LevelRule(s) ==
  LET me_s == ld_s[s].move_energy
      trig == State[TrigKey(s)]
      hys == State[HysKey(s)]
      hold == State[HoldKey(s)]
  IN IF rs[s].trig_on
     THEN ~rs'[s].trig_on <=> (me_s < trig - hys /\ clock - LastQualifying(s) > hold)
     ELSE rs'[s].trig_on <=> me_s >= trig

\* C10 as stated: in level mode every sample follows the rule.
C10_Original ==
  [][\A s \in OpenSides :
       IF TriggerStep(s) THEN LevelRule(s) ELSE rs'[s].trig_on = rs[s].trig_on]_vars

\* C10: in level mode with the moving source, on a sample taken while no
\* macro borrows the port, the trigger goes Inactive->Active exactly when
\* the smoothed energy is >= trigger_on and Active->Inactive exactly when
\* it is < trigger_on - hysteresis and more than hold has elapsed since the
\* last sample with smoothed energy >= min_energy; otherwise it is unchanged.
C10_LevelMode ==
  [][\A s \in OpenSides :
       IF TriggerStep(s)
       THEN (State.trig_source = "moving" /\ ~borrowed[s]) => LevelRule(s)
       ELSE rs'[s].trig_on = rs[s].trig_on]_vars

\* An Inactive channel with the moving source that has been Active: both
\* transitions of the rule were taken.
C10_Witness ==
  \E s \in OpenSides :
    /\ State.trig_mode = "level"
    /\ State.trig_source = "moving"
    /\ ~rs[s].trig_on
    /\ last_emit_ts[s] > 0
    /\ rs[s].last_me < State[TrigKey(s)] - State[HysKey(s)]


\* The reader state _update_trigger evaluates for reader s: the ring and
\* the noise statistics are updated before the trigger logic reads them.
EvalState(s) ==
  LET r1 == IF ld_s[s].move_dist # NoneV
            THEN [rs[s] EXCEPT !.dist_ring = RingAppend(@, ld_s[s].move_dist)]
            ELSE rs[s]
  IN IF ld_s[s].move_energy < Max2(State.min_energy, 10)
     THEN UpdateMeStats(r1, ld_s[s].move_energy) ELSE r1

\* moving_logic(prev) of the trigger update of reader s.
MovingOn(s) == TrigEval(s, State, EvalState(s), ld_s[s], clock).m_on

\* The update of reader s calls _emit_dir_edge: the reader's last_emit_ts
\* is written (its previous call is at least a tick old).
Forwarded(s) == last_emit_ts'[s] # last_emit_ts[s]

\* C11: a trigger update forwards an edge to the pairer exactly when it
\* takes the channel from Inactive to Active while the moving-energy logic
\* is on; a rise by still energy alone and an update of an Active channel
\* forward nothing, and nothing but a trigger update forwards an edge.
C11_EdgeForwarded ==
  [][\A s \in OpenSides :
       Forwarded(s) <=>
         (TriggerStep(s) /\ ~rs[s].trig_on /\ rs'[s].trig_on /\ MovingOn(s))]_vars

\* A channel that still energy alone has made Active: nothing was forwarded.
C11_Witness ==
  \E s \in OpenSides :
    /\ rs[s].trig_on
    /\ last_emit_ts[s] = 0
    /\ DIR.rise_ts[s] = NoneV
    /\ ld_s[s].still_energy >= State[TrigKey(s)]


\* ====================================================================
\* Properties of the pairers: pending edges
\* ====================================================================

\* A step in which the edge of `side` passes the debounce of _emit_dir_edge.
EdgeStep(side) == last_emit_ts'[side] # last_emit_ts[side]

\* The scope: the edge of `side` arrives now and the other channel's last
\* edge is an unpaired one no more than the pair window and no less than
\* minsep ago (it came after the last counted crossing and after the last
\* edge of `side`).
EdgeCandidate(side) ==
  /\ EdgeStep(side)
  /\ ~IsCommand
  /\ last_emit_ts[Other(side)] > last_emit_ts[side]
  /\ prev_cross.t # NoneV
  /\ last_emit_ts[Other(side)] > prev_cross.t
  /\ clock - last_emit_ts[Other(side)] <= State.pair
  /\ clock - last_emit_ts[Other(side)] >= State.minsep

\* The counter: the heads of the two queues are a candidate that passed
\* the window, the ambiguity guard and the amplitude guard, and the
\* crossing falls into the refractory time.
CntRefractory ==
  /\ mpc = "pairing" /\ q["A"] # <<>> /\ q["B"] # <<>> /\ q' # q
  /\ LET a == Head(q["A"])
         b == Head(q["B"])
         dt_ab == Abs(PairT(a) - PairT(b))
     IN /\ ~OutsideWindow(dt_ab) /\ ~TooClose(dt_ab) /\ AmpOk(a, b)
        /\ (Max2(a.peak_t, b.peak_t) - last_cross_t) < args.refract

\* C25 as stated: a candidate inside the pair window whose crossing falls
\* into the refractory period costs the older edge only; the newer edge
\* is pending afterwards and nothing is emitted.
C25_Original ==
  [][\A side \in Sides :
       (EdgeCandidate(side) /\ InRefractory(DIR, clock))
         => /\ DIR'.pending = side /\ DIR'.ts = clock
            /\ Counters' = Counters /\ ~Accepted]_vars

\* The two-sensor counter never meets the case: a detector starts no
\* burst less than args.refract after its last one ended (BurstUpdate),
\* so the peaks of a later pair are at least args.refract after the peaks
\* of the pair counted before.
Cnt_RefractoryNever == [][~CntRefractory]_vars

\* The counter: channel s fired twice before the head of the other
\* channel's queue did, and neither of its two edges is paired yet.
FiredAgain(s) ==
  /\ Len(q[s]) >= 2
  /\ q[Other(s)] # <<>>
  /\ PairT(q[s][2]) < PairT(Head(q[Other(s)]))

\* C26 as stated, for the two-sensor counter: when a channel fired again
\* before its edge was paired, a later edge of the other channel is not
\* paired against the earlier one; a pairing step that meets the earlier
\* edge at the head of its queue only removes it.
C26_Original ==
  [][\A s \in Sides :
       (Candidate /\ FiredAgain(s))
         => /\ q'[s] = Tail(q[s]) /\ q'[Other(s)] = q[Other(s)]
            /\ inbound' = inbound /\ outbound' = outbound]_vars

\* The same for the scope: an edge of the channel that is pending makes
\* its own time the pending one, which the window test of the next edge
\* of the other channel and the gap of the event then use.
Scope_NewerReplaces ==
  [][\A side \in Sides :
       /\ (EdgeStep(side) /\ ~IsCommand /\ DIR.pending = side)
            => /\ DIR'.pending = side /\ DIR'.ts = clock
               /\ DIR'.rise_ts[side] = clock
               /\ ~Accepted
       /\ (EdgeStep(side) /\ ~IsCommand /\ Accepted)
            => /\ DIR.pending = Other(side)
               /\ clock - DIR.ts <= State.pair
               /\ DIR.ts = DIR.rise_ts[Other(side)]
               /\ State'.last_event.dt = clock - DIR.ts]_vars

\* The edge of `side` is the pending one after the step, and the step
\* emitted nothing.
OnlyRecorded(side) ==
  /\ DIR'.pending = side /\ DIR'.ts = clock
  /\ ~Accepted /\ Counters' = Counters
  /\ State'.last_event = State.last_event

\* The other channel's edge is pending and older than the pair window.
StalePending(side) ==
  DIR.pending = Other(side) /\ clock - DIR.ts > State.pair

\* C27 as stated: an edge that finds the other channel's pending edge
\* older than the pair window, or nothing pending, becomes the pending
\* edge, and no event is emitted.
C27_Original ==
  [][\A side \in Sides :
       (EdgeStep(side) /\ ~IsCommand /\ (StalePending(side) \/ DIR.pending = "None"))
         => OnlyRecorded(side)]_vars

\* The same outside the refractory period of the last counted crossing.
Scope_StaleDropped ==
  [][\A side \in Sides :
       (EdgeStep(side) /\ ~IsCommand /\ ~InRefractory(DIR, clock)
          /\ (StalePending(side) \/ DIR.pending = "None"))
         => OnlyRecorded(side)]_vars

\* The counter: of two queue heads further apart than the pair window
\* the older is dropped, the newer stays at the head of its queue, and
\* nothing is counted.
Cnt_StaleDropped ==
  [][(Candidate /\ Gap > args.pair) =>
       LET older == IF PairT(Head(q["A"])) < PairT(Head(q["B"])) THEN "A" ELSE "B"
       IN /\ q'[older] = Tail(q[older])
          /\ q'[Other(older)] = q[Other(older)]
          /\ inbound' = inbound /\ outbound' = outbound]_vars

\* ====================================================================
\* Properties of spike mode
\* ====================================================================

\* The reader state _update_trigger tests the sample against: the ring
\* and the noise statistics after lines 547-551.
SeenBy(side) ==
  LET me_s == ld_s[side].move_energy
      md_s == ld_s[side].move_dist
      r1 == IF md_s # NoneV
            THEN [rs[side] EXCEPT !.dist_ring = RingAppend(@, md_s)]
            ELSE rs[side]
  IN IF me_s < Max2(State.min_energy, 10) THEN UpdateMeStats(r1, me_s) ELSE r1

\* A step in which reader `side` evaluates its trigger on a sample, the
\* port not being borrowed.
EvalStep(side) ==
  rdpc[side] = "trigger" /\ rdpc'[side] = "read" /\ ~borrowed[side]

\* The trigger of `side` goes from Inactive to Active.
Rises(side) == ~rs[side].trig_on /\ rs'[side].trig_on

\* me_s - me_mean >= k_sigma * max(sd, sigma_floor), with me_mean the
\* mean and sd the sample deviation of the me_n values learned (sd = 0
\* up to two values): both sides multiplied by me_n, the comparison with
\* sd squared.
DevOk(side) ==
  LET r == SeenBy(side)
      x == ld_s[side].move_energy
      n == r.me_n
      k == State.k_sigma
  IN IF n = 0 THEN x >= k * State.sigma_floor
     ELSE /\ n * x - r.me_sum >= k * State.sigma_floor * n
          /\ n > 2 =>
               (n * x - r.me_sum) * (n * x - r.me_sum) * (n - 1)
                 >= k * k * n * (n * r.me_sumsq - r.me_sum * r.me_sum)

\* The step up from the previous sample is at least dz_min.
StepOk(side) == ld_s[side].move_energy - rs[side].last_me >= State.dz_min

\* The distance moved by wave_cm or more over the last three samples.
WaveSeen(side) == WaveOk(State, SeenBy(side).dist_ring)

\* C28: in spike mode a sample on which the deviation test or the step
\* test fails signals no spike: without a wave it does not activate the
\* trigger while presence is true, nor below trigger_on while presence is
\* false.
C28_SpikeBoth ==
  [][\A side \in Sides :
       (/\ EvalStep(side) /\ Rises(side)
        /\ State.trig_mode = "spike" /\ State.trig_source = "moving"
        /\ ~WaveSeen(side)
        /\ (Presence(side) \/ ld_s[side].move_energy < State[TrigKey(side)]))
         => (DevOk(side) /\ StepOk(side))]_vars

\* A spike has activated the trigger below trigger_on, with the learned
\* deviation above sigma_floor, no wave being possible yet.
C28_Witness ==
  /\ State.trig_mode = "spike"
  /\ rs["A"].trig_on
  /\ rs["A"].last_me < State.trigA
  /\ rs["A"].last_update_ts = clock
  /\ Len(rs["A"].dist_ring) < 3
  /\ rs["A"].me_n > 2
  /\ rs["A"].me_n * rs["A"].me_sumsq - rs["A"].me_sum * rs["A"].me_sum
       > State.sigma_floor * State.sigma_floor * rs["A"].me_n * (rs["A"].me_n - 1)

\* A spike is signalled on the sample reader `side` evaluates.
SpikeSeen(side) == DevOk(side) /\ StepOk(side)

\* The sample's moving energy is at trigger_on or above.
AtLevel(side) == ld_s[side].move_energy >= State[TrigKey(side)]

\* What C29 says of one evaluation of an Inactive trigger in spike mode.
PresenceRule(side) ==
  /\ (Presence(side) /\ Rises(side)) => (SpikeSeen(side) \/ WaveSeen(side))
  /\ (~Presence(side) /\ ~rs[side].trig_on /\ AtLevel(side)) => rs'[side].trig_on

\* C29 as stated: in spike mode, while presence is true an Inactive
\* channel becomes Active only on a spike or a wave; while presence is
\* false a moving energy at trigger_on or above alone activates it.
C29_Original ==
  [][\A side \in Sides :
       (rdpc[side] = "trigger" /\ rdpc'[side] = "read" /\ State.trig_mode = "spike")
         => PresenceRule(side)]_vars

\* C29, amended: the same with trig_source moving, for samples evaluated
\* while no config macro borrows the port.
C29_Presence ==
  [][\A side \in Sides :
       (EvalStep(side) /\ State.trig_mode = "spike" /\ State.trig_source = "moving")
         => PresenceRule(side)]_vars

\* Presence is true, the trigger is Inactive, and the sample about to be
\* evaluated is at trigger_on or above without spike or wave.
C29_Witness ==
  /\ rdpc["A"] = "trigger" /\ ~borrowed["A"]
  /\ State.trig_mode = "spike" /\ State.trig_source = "moving"
  /\ ~rs["A"].trig_on
  /\ Presence("A") /\ AtLevel("A")
  /\ ~SpikeSeen("A") /\ ~WaveSeen("A")

\* ------------------------------------------------------------------
\* Properties of the smoother: reports below min_energy
\* ------------------------------------------------------------------

\* A step in which reader `side` takes a decoded report whose moving
\* energy is below min_energy; the trigger is evaluated next, with the
\* smoothed moving energy this step leaves.
LowReport(side) ==
  /\ rdpc[side] = "read" /\ rdpc'[side] = "trigger"
  /\ ld_raw'[side].move_energy < State.min_energy

\* C30: a report whose moving energy is below min_energy leaves the
\* smoothed moving distance unchanged, and the energy the trigger is then
\* evaluated with reflects the low reading: where the earlier smoothed
\* energy was higher than the reading, the trigger gets a lower value.
C30_Original ==
  [][\A side \in Sides :
       LowReport(side) =>
         /\ ld_s'[side].move_dist = ld_s[side].move_dist
         /\ ld_s[side].move_energy > ld_raw'[side].move_energy
              => ld_s'[side].move_energy < ld_s[side].move_energy]_vars

\* The first half alone: the smoothed moving distance is unchanged.
Low_DistKept ==
  [][\A side \in Sides :
       LowReport(side) => ld_s'[side].move_dist = ld_s[side].move_dist]_vars

\* What the code does with the energy: the trigger is evaluated with the
\* earlier smoothed moving energy, while the raw report shows the reading.
Low_EnergyKept ==
  [][\A side \in Sides :
       LowReport(side) => ld_s'[side].move_energy = ld_s[side].move_energy]_vars

\* A low report arrives at another distance than the smoothed one, after
\* the smoothed moving energy rose above the reading.
Low_Seen ==
  \E side \in Sides :
    /\ rdpc[side] = "trigger"
    /\ ld_raw[side].move_energy < State.min_energy
    /\ ld_raw[side].move_dist # ld_s[side].move_dist
    /\ ld_s[side].move_energy > ld_raw[side].move_energy

\* The target has left: every report from now on has a moving energy
\* below min_energy.
TargetGone == clock > LeaveAt

\* The target has left, the last report of reader `side` was one of the
\* low ones and has been evaluated, and the clock will run for longer
\* than the hold time.
Departed(side) ==
  /\ TargetGone
  /\ rdpc[side] = "read"
  /\ ld_raw[side].move_energy < State.min_energy
  /\ clock + State[HoldKey(side)] + 1 <= Epoch + Horizon

Release_SpikePresence ==
  \A side \in OpenSides :
    (rs[side].trig_on /\ Departed(side) /\ State.trig_mode = "spike"
       /\ [](ld_s[side].still_energy >= State.presence_se_min))
      ~> ~rs[side].trig_on

\* In level mode the evaluation of a report with a moving energy below
\* min_energy leaves a trigger Active that was Active above trigger_on.
Level_StaysActive ==
  [][\A side \in OpenSides :
       (State.trig_mode = "level" /\ rs[side].trig_on /\ rdpc[side] = "trigger"
          /\ ld_raw[side].move_energy < State.min_energy
          /\ ld_s[side].move_energy >= State[TrigKey(side)])
         => rs'[side].trig_on]_vars

\* ====================================================================
\* Properties of the frame decoders
\* ====================================================================

\* The frames of the wanted channel among fs.
Wanted(fs) == SelectSeq(fs, LAMBDA f : f[1] = WantId)

\* C12 as stated: when N frames and any garbage between them are through,
\* each simple-shape decoder has reported exactly those N frames in order
\* (the counter's reader those of its channel).
C12_Original ==
  tx.pos = 0 => (sm.out = tx.sent /\ rbuf.out = Wanted(tx.sent))

\* C22 as stated: a byte that does not fit the 00 slot or a 55 slot resets
\* the scan of the byte-at-a-time decoder; when that byte is AA (here the
\* first byte of the next frame) it is taken as the first AA of a frame,
\* and the frame that begins at it is decoded when its last byte arrives.
C22_Original ==
  [][/\ (sm.state \in 4..6 /\ tx.pos = 0 /\ tx'.pos = 1) => sm'.state = 1
     /\ (tx.pos = 6 /\ tx'.pos = 0 /\ tx'.lost = tx.lost)
          => sm'.out = Append(sm.out, tx.cur)]_vars


\* A step in which reader s reads a chunk and calls the extractor.
ChunkStep(s) == line[s] # <<>> /\ line'[s] = <<>>

\* a is what is left of b when bytes are deleted at its front.
IsSuffix(a, b) ==
  Len(a) <= Len(b) /\ SubSeq(b, Len(b) - Len(a) + 1, Len(b)) = a

\* C23: after a call of extract_report_frames on a buffer without a header
\* the buffer has at most 4096 bytes and is a suffix of the buffer the
\* call was given.
C23_TrimSuffix ==
  [][\A s \in Sides :
       (ChunkStep(s) /\ FindSeq(xbuf[s] \o line[s], HDR_RPT, 0) = 0)
         => /\ Len(xbuf'[s]) <= 4096
            /\ IsSuffix(xbuf'[s], xbuf[s] \o line[s])]_vars

\* All the bytes sent were read, more than 4096 of them, and the buffer
\* holds the 64 newest: a call has trimmed it.
C23_Witness ==
  /\ tx.bytes > 4096
  /\ line["A"] = <<>>
  /\ Len(xbuf["A"]) = 64
  /\ xbuf["A"][64] = NoiseByte(tx.bytes)
  /\ xout["A"] = <<>>

\* pat occurs in b at the 1-based index i.
OccursAt(b, pat, i) ==
  i >= 1 /\ i + Len(pat) - 1 <= Len(b) /\ SubSeq(b, i, i + Len(pat) - 1) = pat

\* The 1-based index h of b holds the first header of b, and no footer
\* comes after that header.
OpenHeaderAt(b, h) ==
  /\ OccursAt(b, HDR_RPT, h)
  /\ \A i \in 1..(h - 1) : ~OccursAt(b, HDR_RPT, i)
  /\ \A i \in (h + 4)..Len(b) : ~OccursAt(b, FTR_RPT, i)

\* C13: a call of the extractor on a buffer with a header and no footer
\* after it returns no frame and leaves the buffer as the header and every
\* byte after it; and when a later read appends bytes up to the footer, the
\* first frame returned is the kept bytes followed by the appended ones up
\* to and including that footer.
C13_HeaderKept ==
  [][\A s \in OpenSides : ChunkStep(s) =>
       LET b == xbuf[s] \o line[s] IN
       /\ \A h \in 1..Len(b) : OpenHeaderAt(b, h) =>
            (xout'[s] = xout[s] /\ xbuf'[s] = SubSeq(b, h, Len(b)))
       /\ \A e \in 5..Len(b) :
            (/\ OpenHeaderAt(xbuf[s], 1)
             /\ OccursAt(b, FTR_RPT, e)
             /\ \A i \in 5..(e - 1) : ~OccursAt(b, FTR_RPT, i))
            => (/\ Len(xout'[s]) > Len(xout[s])
                /\ xout'[s][Len(xout[s]) + 1] = SubSeq(b, 1, e + 3))]_vars

\* After a read that ended inside a valid frame: the buffer is the frame's
\* bytes so far, header first, and nothing was returned.
C13_Witness ==
  \E s \in OpenSides :
    /\ tx.pos >= 4
    /\ tx.cur \in ValidFrames
    /\ line[s] = <<>>
    /\ xbuf[s] = SubSeq(tx.cur, 1, tx.pos)
    /\ xout[s] = <<>>
    /\ tx.garbage = 1


\* The report a valid frame f carries.
OwnReport(f) ==
  LET v == CHOOSE w \in ValidParams : ReportBytes(w[1], w[2], w[3], w[4], w[5]) = f
  IN [move_energy |-> v[3], move_dist |-> v[2], still_energy |-> v[5], still_dist |-> v[4]]

\* C14 as stated: once garbage followed by a complete valid frame has been
\* read, in any chunking, the extractor has returned that frame and the
\* report decoded from it has the frame's own distances and energies.
C14_Original ==
  \A s \in OpenSides :
    (/\ tx.pos = 0 /\ line[s] = <<>>
     /\ tx.sent # <<>> /\ tx.sent[Len(tx.sent)] \in ValidFrames
     /\ xbuf[s] = <<>>)
    => (/\ xout[s] # <<>>
        /\ xout[s][Len(xout[s])] = tx.sent[Len(tx.sent)]
        /\ ld_raw[s] = OwnReport(tx.sent[Len(tx.sent)]))


\* Both distances in [0, 6000] and both energies in [0, 100].
InRange(r) ==
  /\ 0 <= r.move_dist /\ r.move_dist <= 6000
  /\ 0 <= r.still_dist /\ r.still_dist <= 6000
  /\ 0 <= r.move_energy /\ r.move_energy <= 100
  /\ 0 <= r.still_energy /\ r.still_energy <= 100

\* f has the header, the footer, a body of at least 8 bytes and in it a
\* marker followed (after an optional type byte) by six bytes.
WellFormed(f) ==
  /\ Len(f) >= 16
  /\ OccursAt(f, HDR_RPT, 1)
  /\ OccursAt(f, FTR_RPT, Len(f) - 3)
  /\ \E i \in 5..(Len(f) - 4) :
       /\ f[i] = MARK
       /\ (IF f[i + 1] \in TypeBytes THEN i + 7 ELSE i + 6) <= Len(f) - 4

\* The frames returned to reader s and every slice of them.
Slices(s) ==
  UNION {{SubSeq(xout[s][n], i, j) : i \in 1..3, j \in 1..Len(xout[s][n])} :
           n \in 1..Len(xout[s])}

\* C15: decode_report_frame returns a report only for a frame with header,
\* footer, a body of at least 8 bytes and a marker group, and only with
\* both distances in [0, 6000] and both energies in [0, 100]; the report
\* held in STATE is such a report or none.
C15_DecodeRange ==
  \A s \in OpenSides :
    /\ \A f \in Slices(s) :
         decode_report_frame(f) # NoReport =>
           (WellFormed(f) /\ InRange(decode_report_frame(f)))
    /\ ld_raw[s] # NoReport => InRange(ld_raw[s])

\* A frame with an energy of 110 was returned by the extractor and read:
\* no report came of it.
C15_Witness ==
  \E s \in OpenSides :
    /\ xout[s] = <<ReportBytes(FALSE, 120, 110, 150, 0)>>
    /\ line[s] = <<>>
    /\ ld_raw[s] = NoReport

\* ====================================================================
\* Properties of the moving averages
\* ====================================================================

\* The moving averages and the constant each is fed, in the same unit; a
\* report field is fed when the report passes the tests of lines 708 and
\* 713, the baseline on every value.
EmaTracks(e) ==
  [move_energy |-> [x |-> e.cur.move_energy, v |-> e.rep.move_energy * EmaScale,
                    fed |-> e.rep.move_energy >= e.min_energy /\ e.rep.move_dist # NoneV],
   move_dist |-> [x |-> e.cur.move_dist, v |-> e.rep.move_dist,
                  fed |-> e.rep.move_energy >= e.min_energy /\ e.rep.move_dist # NoneV],
   still_energy |-> [x |-> e.cur.still_energy, v |-> e.rep.still_energy * EmaScale,
                     fed |-> e.rep.still_energy >= e.min_energy /\ e.rep.still_dist # NoneV],
   still_dist |-> [x |-> e.cur.still_dist, v |-> e.rep.still_dist,
                   fed |-> e.rep.still_energy >= e.min_energy /\ e.rep.still_dist # NoneV],
   mu |-> [x |-> e.mu, v |-> e.val * EmaScale, fed |-> TRUE]]

EmaNames == {"move_energy", "move_dist", "still_energy", "still_dist", "mu"}

\* The step feeds the moving average named k.
FedStep(k) ==
  /\ EmaTracks(ema)[k].fed
  /\ IF k = "mu" THEN ema'.k = ema.k + 1 ELSE ema'.n = ema.n + 1

\* C16: a value v fed to a moving average never moves it away from v, and
\* the average does not come to rest anywhere but at v (an average that a
\* sample leaves where it was, away from v, stays there under every later
\* sample and so never comes within that distance of v).
C16_Original ==
  [][\A k \in EmaNames :
       FedStep(k) =>
         LET old == EmaTracks(ema)[k]
             new == EmaTracks(ema')[k]
         IN /\ old.x # NoneV => Abs(new.x - new.v) <= Abs(old.x - old.v)
            /\ new.x = old.x => old.x = old.v]_vars

\* ====================================================================
\* Properties of the readers' threads
\* ====================================================================

\* The channel a DirectionEvent names first.
LeadOf(evt) == IF evt = "A2B" THEN "A" ELSE "B"

\* C17: every DirectionEvent emitted while both readers call
\* _emit_dir_edge names as lead the channel whose edge carries the earlier
\* time, and the lag's time minus the lead's is between 0 and pair.
C17_Original ==
  [][Accepted =>
       LET lead == LeadOf(DIR'.last)
           gap == DIR'.rise_ts[Other(lead)] - DIR'.rise_ts[lead]
       IN gap >= 0 /\ gap <= State.pair]_vars

\* ====================================================================
\* Properties of the parameter patch
\* ====================================================================

\* A value of the proper type and inside the range the parameter can
\* sensibly take: a refractory time is a number of seconds that is not
\* negative, min_energy an energy (0..100), ld_alpha a weight above 0 and
\* at most 1.
InValidRange(k, v) ==
  /\ v # JsonString
  /\ CASE k = "refract" -> v >= 0
       [] k = "min_energy" -> v >= 0 /\ v <= 100
       [] k = "ld_alpha" -> v > 0 /\ v <= 100
       [] OTHER -> TRUE

\* C18: whatever patches have been posted, every tunable parameter holds
\* a value of its type inside its range (a field that is out of range or
\* wrongly typed having left the parameter as it was).
C18_Original ==
  \A k \in BodyKeys \cap PUB_KEYS : InValidRange(k, State[k])

\* ====================================================================
\* Properties of the workers' start and stop
\* ====================================================================

\* Where a worker is: rdpc for the scope's readers, wk for the others.
PcOf(w) == IF w[1] = "scope" THEN rdpc[w[2]] ELSE wk[w]

\* The workers of the program that was started.
Started == {w \in Workers : PcOf(w) # "off"}

\* The program is past the start of its workers: the threads of the scope
\* and of sensors.py past their opening of the port, the counter's main
\* past lines 208-211.
StartupOver ==
  /\ \A w \in Started : w[1] # "cnt" => PcOf(w) # "new"
  /\ mpc \notin {"makeA", "makeB", "start"}

\* The worker is in its loop.
InLoop(w) == PcOf(w) \in {"read", "trigger", "idle", "backoff", "loop"}

\* The worker's thread got into its loop with its stream open, whether it
\* is still there or not.
HasRun(w) == PcOf(w) \in {"read", "trigger", "idle", "backoff", "loop", "done",
                          "dead", "killed"}
             /\ ser[w] # "none"

\* The channel of a worker whose port did not open is out of use: no
\* stream, no thread in a loop, no trigger, no edge, no frame.
Disabled(w) ==
  /\ ser[w] = "none"
  /\ ~InLoop(w)
  /\ w[1] = "scope" => ~rs[w[2]].trig_on /\ last_emit_ts[w[2]] = 0
  /\ w[1] = "cnt" => rd_last_ts[w[2]] = 0

\* C19: once the program has tried to start its workers, a channel whose
\* port failed to open is disabled, and stays so, while every other
\* channel's worker has got into its loop.
C19_Original ==
  StartupOver =>
    \A w \in Started : IF port_ok[w] THEN HasRun(w) ELSE Disabled(w)

\* C20: a worker that is in its loop when it is told to stop, a borrowed
\* port and a failed read included, in the end has left the loop, closed
\* its stream and ended.
C20_Original ==
  \A w \in Workers :
    (InLoop(w) /\ stop_ev[w]) ~> (PcOf(w) = "done" /\ ser[w] = "closed")

\* The same two statements for the workers of rd03e_scope.py and of
\* sensors.py alone, which open the port inside run and close it after
\* the loop.
Start_ScopeUsb ==
  StartupOver =>
    \A w \in Started : w[1] # "cnt" => IF port_ok[w] THEN HasRun(w) ELSE Disabled(w)

Stop_ScopeUsb ==
  \A w \in {x \in Workers : x[1] # "cnt"} :
    (InLoop(w) /\ stop_ev[w]) ~> (PcOf(w) = "done" /\ ser[w] = "closed")

\* ------------------------------------------------------------------
\* Properties of the noise statistics
\* ------------------------------------------------------------------

\* The learned noise statistics of a reader: the count, and the sum and
\* the sum of squares that stand for me_mean and me_m2.
Acc(r) == <<r.me_n, r.me_sum, r.me_sumsq>>

\* A step in which reader `side` leaves _update_trigger, normally or by an
\* exception, on a sample below max(min_energy, 10).
QuietUpdate(side) ==
  /\ rdpc[side] = "trigger" /\ rdpc'[side] # "trigger"
  /\ ld_s[side].move_energy < Max2(State.min_energy, 10)

\* C31: the noise statistics of a channel change only on a trigger update
\* whose sample is quiet, and there they take the sample in; every other
\* step leaves them as they are, the count never decreases and they never
\* go back to their initial values.
C31_QuietOnly ==
  [][\A side \in Sides :
       /\ Acc(rs'[side]) # Acc(rs[side]) => QuietUpdate(side)
       /\ QuietUpdate(side) =>
            Acc(rs'[side]) = <<rs[side].me_n + 1,
                               rs[side].me_sum + ld_s[side].move_energy,
                               rs[side].me_sumsq
                                 + ld_s[side].move_energy * ld_s[side].move_energy>>
       /\ rs'[side].me_n >= rs[side].me_n
       /\ Acc(rs[side]) # Acc(RS_INIT) => Acc(rs'[side]) # Acc(RS_INIT)]_vars

\* A reader that has learned from two quiet samples is about to evaluate
\* a sample that is not quiet, its trigger Active.
C31_Witness ==
  /\ rdpc["A"] = "trigger"
  /\ rs["A"].me_n >= 2 /\ rs["A"].me_sum > 0
  /\ rs["A"].trig_on
  /\ ld_s["A"].move_energy >= Max2(State.min_energy, 10)

\* ====================================================================
\* The simple-shape decoders on any byte stream
\* ====================================================================

MaxWire == 8

\* The bytes of the stream: sync, tail, padding and 2, which is the id of
\* the wanted channel and a value.
WireBytes == {SYNC, TAIL, PAD, 2}

\* The last seven elements of s.
Last7(s) == IF Len(s) <= 7 THEN s ELSE SubSeq(s, Len(s) - 6, Len(s))

\* The line delivers the byte x to the decoders.
WireByte(x) ==
  /\ tx.bytes < MaxWire
  /\ tx' = [tx EXCEPT !.bytes = @ + 1, !.tail = Last7(Append(@, x))]
  /\ Deliver(x)
  /\ UNCHANGED <<clock, scopeVars, concVars, pairVars, trigVars, line, xbuf, xout, ld_raw, ema, appVars, runVars>>

NextShape == \E x \in WireBytes : WireByte(x)

SpecShape == Init /\ [][NextShape]_vars

\* The last seven bytes of the stream are AA AA id val 00 55 55.
ShapeOf(t, id, val) == t = <<SYNC, SYNC, id, val, PAD, TAIL, TAIL>>

\* The sample the decoder with output `old` before and `new` after the
\* step has produced in the step, if any, comes from seven consecutive
\* bytes of the simple shape.
FromShape(old, new, t) ==
  new # old =>
    /\ Len(new) = Len(old) + 1
    /\ ShapeOf(t, new[Len(new)][1], new[Len(new)][2])

\* C32 as stated: each simple-shape decoder, the byte-at-a-time one and
\* the counter's, yields a sample (id, val) only when the last seven bytes
\* of the stream are AA AA id val 00 55 55.
C32_Original ==
  [][/\ FromShape(sm.out, sm'.out, tx'.tail)
     /\ FromShape(rbuf.out, rbuf'.out, tx'.tail)]_vars

\* The byte-at-a-time decoder alone.
Sm_ShapeOnly == [][FromShape(sm.out, sm'.out, tx'.tail)]_vars

\* What the counter's reader requires of the seven bytes: the two sync
\* bytes, the wanted id and the two tail bytes, whatever the fifth byte.
Rd_TailOnly ==
  [][rbuf'.out # rbuf.out =>
       /\ Len(rbuf'.out) = Len(rbuf.out) + 1
       /\ \E pad \in WireBytes :
            tx'.tail = <<SYNC, SYNC, WantId, rbuf'.out[Len(rbuf'.out)][2],
                         pad, TAIL, TAIL>>]_vars

\* Both decoders have yielded a sample.
Shape_Seen == Len(sm.out) > 0 /\ Len(rbuf.out) > 0

\* ====================================================================
\* rd03e_scope.py: _txrx and the reader at the same port
\* ====================================================================

\* Lines 664-669: lk.locked() was False and self._ser is set, the thread
\* goes on to self._ser.read, which waits for bytes up to the port's
\* timeout.  Nothing is held between the test and the read.
ReaderPassed(side) ==
  /\ rdpc[side] = "read"
  /\ Looping(side)
  /\ ~borrowed[side]
  /\ rdpc' = [rdpc EXCEPT ![side] = "inread"]
  /\ UNCHANGED <<clock, scopeVars, concVars, pairVars, ioVars, ld_s, rs, borrowed>>

\* The read returns no byte: the rest of the iteration changes nothing
\* the model follows.
ReaderReturnEmpty(side) ==
  /\ rdpc[side] = "inread"
  /\ rdpc' = [rdpc EXCEPT ![side] = "read"]
  /\ UNCHANGED <<clock, scopeVars, concVars, pairVars, ioVars, ld_s, rs, borrowed>>

\* The read returns a chunk whose last report is (me, md, se, sd): lines
\* 674-718, as in ReaderRead.
ReaderReturn(side, me, md, se, sd) ==
  /\ rdpc[side] = "inread"
  /\ rs[side].last_update_ts # clock
  /\ ld_raw' = [ld_raw EXCEPT ![side] =
                   [move_energy |-> me, move_dist |-> md,
                    still_energy |-> se, still_dist |-> sd]]
  /\ ld_s' = [ld_s EXCEPT ![side] = SmoothReport(State, @, me, md, se, sd)]
  /\ rdpc' = [rdpc EXCEPT ![side] = "trigger"]
  /\ UNCHANGED <<clock, scopeVars, concVars, pairVars, rs, borrowed,
                 tx, sm, rbuf, line, xbuf, xout, ema, runVars, appVars>>

\* _txrx, lines 1219-1223: `with lk`, `with r._io_lock`, and the call is
\* at reset_input_buffer, write and flush.
TxrxEnter(side) ==
  /\ mio[side] = "none"
  /\ ~borrowed[side]
  /\ borrowed' = [borrowed EXCEPT ![side] = TRUE]
  /\ mio' = [mio EXCEPT ![side] = "write"]
  /\ UNCHANGED <<clock, scopeVars, concVars, pairVars, ld_s, rs, rdpc,
                 tx, sm, rbuf, line, xbuf, xout, ld_raw, ema, runVars,
                 wp, usb, evq, app>>

\* Lines 1224-1233: the sleep of read_wait_ms, then the loop of ser.read
\* up to the deadline.
TxrxStep(side) ==
  /\ mio[side] \in {"write", "wait"}
  /\ mio' = [mio EXCEPT ![side] = IF @ = "write" THEN "wait" ELSE "read"]
  /\ UNCHANGED <<clock, scopeVars, concVars, pairVars, trigVars,
                 tx, sm, rbuf, line, xbuf, xout, ld_raw, ema, runVars,
                 wp, usb, evq, app>>

\* Line 1234: the deadline has passed, return; both locks are released.
TxrxLeave(side) ==
  /\ mio[side] = "read"
  /\ borrowed' = [borrowed EXCEPT ![side] = FALSE]
  /\ mio' = [mio EXCEPT ![side] = "none"]
  /\ UNCHANGED <<clock, scopeVars, concVars, pairVars, ld_s, rs, rdpc,
                 tx, sm, rbuf, line, xbuf, xout, ld_raw, ema, runVars,
                 wp, usb, evq, app>>

\* Reader A, its radar, and macros calling _txrx on its port.
NextBorrow ==
  \/ Tick
  \/ \E side \in OpenSides : ReaderPassed(side)
  \/ \E side \in OpenSides : ReaderIdle(side)
  \/ \E side \in OpenSides : ReaderWake(side)
  \/ \E side \in OpenSides : ReaderReturnEmpty(side)
  \/ \E side \in OpenSides :
       ReaderReturn(side, RunReport.move_energy, RunReport.move_dist,
                    RunReport.still_energy, RunReport.still_dist)
  \/ \E side \in OpenSides : ReaderTrigger(side)
  \/ \E side \in OpenSides : TxrxEnter(side)
  \/ \E side \in OpenSides : TxrxStep(side)
  \/ \E side \in OpenSides : TxrxLeave(side)

SpecBorrow == InitReaders({"level"}, {"moving"}) /\ [][NextBorrow]_vars

\* A _txrx call holds the borrow lock of `side` and is writing to or
\* reading from the port.
MacroAtPort(side) == borrowed[side] /\ mio[side] \in {"write", "read"}

\* C33 as stated: while a macro holds a channel's borrow lock and writes
\* to or reads from the port, the channel's reader is not inside a read
\* of that port.
C33_Original ==
  \A side \in Sides : MacroAtPort(side) => rdpc[side] # "inread"

\* What the test of lines 664-667 gives: the reader does not begin a read
\* while the borrow lock is held.
Borrow_NoNewRead ==
  [][\A side \in Sides :
       (rdpc[side] # "inread" /\ rdpc'[side] = "inread") => ~borrowed[side]]_vars

\* The reader found the lock held and sleeps while the macro is at the port.
Borrow_Idled ==
  \E side \in Sides : MacroAtPort(side) /\ rdpc[side] = "idle"

\* ------------------------------------------------------------------
\* Properties of the burst detector
\* ------------------------------------------------------------------

\* What the update of detector s on a sample of magnitude mag taken at ts
\* must give: a burst starts at a magnitude of trig_on or more, refractory
\* after the last event; it ends, with one event, at a magnitude below
\* trig_off, minsep after its start; no other update returns an event.
BurstRule(s, mag, ts) ==
  LET d == det[s]
      r == BurstUpdate(s, d, mag, ts)
      starts == ~d.in_burst /\ mag >= args.trig_on
                  /\ ts - d.last_emit_t >= args.refract
      ends == d.in_burst /\ mag * 10 < args.trig_off10
                /\ ts - d.start_t >= args.minsep
  IN /\ r.det.in_burst = (starts \/ (d.in_burst /\ ~ends))
     /\ starts => r.det.start_t = ts /\ r.det.peak_amp = mag
     /\ (r.ev # NoBurst) = ends
     /\ ends => /\ r.ev.sensor = s
                /\ r.ev.start_t = d.start_t /\ r.ev.end_t = ts
                /\ r.ev.start_t <= r.ev.peak_t /\ r.ev.peak_t <= r.ev.end_t
                /\ r.ev.peak_amp >= args.trig_on
                /\ r.det.last_emit_t = ts

\* The events of sensor s in the queue are those the detector returned:
\* the queue grows by one event exactly in a step that ends a burst.
OneEvent(s) ==
  /\ Len(q'[s]) > Len(q[s])
       => /\ q'[s] = Append(q[s], q'[s][Len(q'[s])])
          /\ det[s].in_burst /\ ~det'[s].in_burst
          /\ q'[s][Len(q'[s])].start_t = det[s].start_t
  /\ (det[s].in_burst /\ ~det'[s].in_burst) => Len(q'[s]) = Len(q[s]) + 1

\* C34: in every state the detector can be in, and for every sample it
\* may get next, update follows the rule above, and every burst puts
\* exactly one event on the queue, when it ends.
C34_OnePerBurst ==
  /\ [](\A s \in Sides : \A mag \in MagLevels :
          rd_last_ts[s] # 0 => BurstRule(s, mag, rd_last_ts[s]))
  /\ [][\A s \in Sides : OneEvent(s)]_vars

\* A burst that started, peaked later and ended later still has put its
\* event on the queue, and the detector is in the next burst.
C34_Witness ==
  \E s \in Sides :
    /\ q[s] # <<>>
    /\ q[s][1].start_t < q[s][1].peak_t /\ q[s][1].peak_t < q[s][1].end_t
    /\ det[s].in_burst

\* ------------------------------------------------------------------
\* Properties of the counters under interleaving
\* ------------------------------------------------------------------

\* The direction counters and the class counters add up to the same.
Balanced(st) ==
  st.count_A2B + st.count_B2A = st.count_total + st.count_other

\* C35 as stated, read at the states where no reader thread is inside the
\* increments of _emit_dir_edge and no counts_reset is half done:
\* count_A2B + count_B2A = count_total + count_other.
C35_Original == (wpc = "idle" /\ rpc = 0) => Balanced(State)

\* The same for runs in which a crossing is counted, and the counters are
\* reset, in one step each.
Counts_Balanced == Balanced(State)

\* A crossing has been counted and the counters are not all zero.
Counts_Seen == State.count_A2B + State.count_B2A > 0 /\ prev_cross.t # NoneV

\* ====================================================================
\* rd03e_wave_single.py: DirectionPairer
\* ====================================================================

\* The command lines of the runs, in ticks: a pairing window of two ticks
\* and a debounce of one, with --quiet above --pair, as the defaults are,
\* and below it.
WaveArgSets ==
  {[pair |-> 2, quiet |-> qt, debounce |-> 1] : qt \in {3, 1}}

\* main: the command line is parsed, the pairer and the readers are built.
WaveMain(a) ==
  /\ wp.pc = "new"
  /\ wp' = [wp EXCEPT !.pc = "run", !.pair_window = a.pair,
                      !.quiet_time = a.quiet, !.debounce = a.debounce]
  /\ UNCHANGED <<clock, scopeVars, concVars, pairVars, trigVars,
                 tx, sm, rbuf, line, xbuf, xout, ld_raw, ema, runVars,
                 mio, usb, evq, app>>

\* The position in w.events of the event on_event pairs the event of
\* `sensor` at `now` with: the last appended event of the other sensor
\* that lies 0..pair_window back; 0 when there is none.
PairWith(w, sensor, now) ==
  LET hits == {i \in 1..Len(w.events) :
                 /\ w.events[i].sensor = Other(sensor)
                 /\ 0 <= now - w.events[i].t
                 /\ now - w.events[i].t <= w.pair_window}
  IN IF hits = {} THEN 0 ELSE CHOOSE i \in hits : \A j \in hits : j <= i

\* DirectionPairer.on_event for the event of `sensor` at `now`.
OnEvent(w, sensor, now) ==
  LET w1 == [w EXCEPT !.events = Append(@, [sensor |-> sensor, t |-> now])]
      i == PairWith(w, sensor, now)
  IN IF now - w.last_pair_t < w.quiet_time \/ i = 0
     THEN w1
     ELSE [w1 EXCEPT !.total_in = IF sensor = "B" THEN @ + 1 ELSE @,
                     !.total_out = IF sensor = "A" THEN @ + 1 ELSE @,
                     !.last_pair_t = now,
                     !.pairs = Append(@, <<i, Len(w1.events)>>)]

\* RD03EReader._fire of reader `side` outside its debounce, and the
\* callback it makes.
WaveFire(side) ==
  /\ wp.pc = "run"
  /\ clock - wp.last_fire[side] >= wp.debounce
  /\ wp' = OnEvent([wp EXCEPT !.last_fire[side] = clock], side, clock)
  /\ UNCHANGED <<clock, scopeVars, concVars, pairVars, trigVars,
                 tx, sm, rbuf, line, xbuf, xout, ld_raw, ema, runVars,
                 mio, usb, evq, app>>

NextWave ==
  \/ Tick
  \/ \E a \in WaveArgSets : WaveMain(a)
  \/ \E side \in Sides : WaveFire(side)

SpecWave == Init /\ [][NextWave]_vars

\* ------------------------------------------------------------------
\* Properties of the pairers: an edge is counted once
\* ------------------------------------------------------------------

\* The positions of the events that took part in the k-th counted pair.
PairedIn(k) == {wp.pairs[k][1], wp.pairs[k][2]}

\* C36 as stated, for rd03e_wave_single.py: no event takes part in two
\* counted crossings.
C36_Original ==
  \A k, m \in 1..Len(wp.pairs) : k # m => PairedIn(k) \cap PairedIn(m) = {}

\* The same with --quiet not below --pair.
Wave_OncePerEdge ==
  wp.quiet_time >= wp.pair_window => C36_Original

\* The scope: a step that counts a crossing leaves no edge pending.
Scope_EdgesConsumed ==
  [][Accepted => DIR'.pending = "None" /\ DIR'.ts = 0]_vars

\* The counter: a step that counts a crossing takes both edges off their
\* queues.
Cnt_EdgesConsumed ==
  [][(inbound' # inbound \/ outbound' # outbound) => BothConsumed]_vars

\* Two crossings have been counted by rd03e_wave_single.py.
Wave_Seen == Len(wp.pairs) >= 2 /\ wp.quiet_time >= wp.pair_window

\* ====================================================================
\* sensors.py: Ld2410UsbReader, the rising edge of the moving energy
\* ====================================================================

LongHorizon == 8

\* min_energy of the constructor and the cooldown_s = 0.3 that GPIOInputs
\* passes, in ticks.
UsbMinEnergy == 20
UsbCooldown == 6

\* The event code of the reader of `side`.
EventCode(side) == IF side = "A" THEN "a" ELSE "b"

\* Time passes, for longer than in the runs of the scope.
LongTick ==
  /\ clock < Epoch + LongHorizon
  /\ clock' = clock + 1
  /\ UNCHANGED <<scopeVars, nonScopeVars>>

\* A reader that takes the still energy for presence as well.
UsbPresent_Still(me, se) == me >= UsbMinEnergy \/ se >= UsbMinEnergy

\* Line 159: present, from the moving energy alone.
UsbPresent(me, se) == me >= UsbMinEnergy

\* Lines 147-172 on a chunk that holds one report, with moving energy me
\* and still energy se.  The radar sends at most one report per tick.  An
\* entry of the queue is the event code; t, the time it was put, is a
\* history.
UsbReport(side, me, se) ==
  /\ wk[Usb(side)] = "loop"
  /\ ~stop_ev[Usb(side)]
  /\ usb[side].rep_ts # clock
  /\ LET present == UsbPresent(me, se)
         fire == /\ present /\ ~usb[side].last_present
                 /\ (clock - usb[side].last_event_ts) > UsbCooldown
     IN /\ usb' = [usb EXCEPT ![side] =
                     [last_present |-> present,
                      last_event_ts |-> IF fire THEN clock ELSE @.last_event_ts,
                      prev_me |-> me, rep_ts |-> clock]]
        /\ evq' = IF fire
                  THEN Append(evq, [code |-> EventCode(side), t |-> clock])
                  ELSE evq
  /\ UNCHANGED <<clock, scopeVars, concVars, pairVars, trigVars,
                 tx, sm, rbuf, line, xbuf, xout, ld_raw, ema, runVars,
                 mio, wp, app>>

\* Moving energies below and at min_energy and above it, still energies
\* below and above it.
UsbEnergies == {5, 20, 38}
UsbStill == {0, 40}

NextUsb ==
  \/ LongTick
  \/ \E side \in Sides : \E me \in UsbEnergies : \E se \in UsbStill :
       UsbReport(side, me, se)

SpecUsb == Init /\ [][NextUsb]_vars

\* ------------------------------------------------------------------
\* Properties of Ld2410UsbReader
\* ------------------------------------------------------------------

\* The time reader `side` put its last event on the queue, 0 before the
\* first.
LastPut(side) ==
  LET ts == {evq[i].t : i \in {j \in 1..Len(evq) : evq[j].code = EventCode(side)}}
  IN IF ts = {} THEN 0 ELSE CHOOSE t \in ts : \A u \in ts : u <= t

\* A step in which reader `side` handles a decoded report.
UsbStep(side) == usb'[side] # usb[side]

\* C37: the queue changes only by one event code put at its end, by the
\* reader that handles a report with a moving energy of min_energy or more
\* while its previous report, if any, was below min_energy, and more than
\* cooldown_s after the reader's previous event; a report that follows one
\* at or above min_energy puts nothing, and so does every report with a
\* moving energy below min_energy, whatever its still energy.
C37_RisingEdge ==
  [][/\ evq' # evq =>
          \E side \in Sides :
            /\ UsbStep(side)
            /\ evq' = Append(evq, [code |-> EventCode(side), t |-> clock])
            /\ usb'[side].prev_me >= UsbMinEnergy
            /\ usb[side].prev_me < UsbMinEnergy
            /\ clock - LastPut(side) > UsbCooldown
     /\ \A side \in Sides :
          (UsbStep(side) /\ usb[side].prev_me >= UsbMinEnergy) => evq' = evq
     /\ \A side \in Sides :
          (UsbStep(side) /\ usb'[side].prev_me < UsbMinEnergy) => evq' = evq]_vars

\* Reader A has put two events, and in between a rising edge inside the
\* cooldown has put none.
C37_Witness ==
  /\ Len(SelectSeq(evq, LAMBDA e : e.code = "a")) = 2
  /\ usb["A"].prev_me >= UsbMinEnergy
  /\ usb["A"].rep_ts = usb["A"].last_event_ts

\* A rising edge of reader A inside the cooldown of its last event.
Usb_EdgeInCooldown ==
  /\ usb["A"].last_present /\ usb["A"].rep_ts > usb["A"].last_event_ts
  /\ usb["A"].rep_ts - usb["A"].last_event_ts <= UsbCooldown
  /\ usb["A"].last_event_ts > 0

\* ====================================================================
\* app.py: main, and the inputs of sensors.py that feed its queue
\* ====================================================================

AppTicks == 2
MaxDrops == 2
MaxPasses == 4
MaxDays == 1

\* letter_cooldown_s = 3.0 and donation_cooldown_s = 5.0, in ticks.
LetterCooldown == 60
DonationCooldown == 100

\* cfg["car"] with its defaults (lines 143-146): sequence_window_s = 2.0
\* and cooldown_s = 3.0, in ticks; direction.toward_reference is "AB".
CarCfg == [sequence_window_s |-> 40, cooldown_s |-> 60]

\* How long the clip played by play_once lasts: 1 s and 5 s, both below
\* play_timeout_s.
ClipTicks == {20, 100}

\* Time passes for the app and its inputs.  get_event returns as soon as
\* the queue holds an event, so no time passes while the loop waits in it
\* for an event that is there.
AppTick ==
  /\ app.ticks < AppTicks
  /\ ~(app.pc = "top" /\ evq # <<>> /\ app.now_ts # clock)
  /\ clock' = clock + 1
  /\ app' = [app EXCEPT !.ticks = @ + 1]
  /\ UNCHANGED <<scopeVars, concVars, pairVars, trigVars,
                 tx, sm, rbuf, line, xbuf, xout, ld_raw, ema, runVars,
                 mio, wp, usb, evq>>

\* Midnight passes: time.localtime().tm_yday shows the next day.
Midnight ==
  /\ app.today < MaxDays
  /\ app' = [app EXCEPT !.today = @ + 1]
  /\ UNCHANGED <<clock, scopeVars, concVars, pairVars, trigVars,
                 tx, sm, rbuf, line, xbuf, xout, ld_raw, ema, runVars,
                 mio, wp, usb, evq>>

\* GPIOInputs._emit from the when_pressed callback of the letter ("l") or
\* donation ("d") button; bounce_time = 0.05 keeps two presses of one
\* button a tick apart.
GpioEmit(code) ==
  /\ app.emitted < MaxDrops
  /\ app.pin_t[code] # clock
  /\ evq' = Append(evq, [code |-> code, t |-> clock])
  /\ app' = [app EXCEPT !.emitted = @ + 1, !.pin_t[code] = clock]
  /\ UNCHANGED <<clock, scopeVars, concVars, pairVars, trigVars,
                 tx, sm, rbuf, line, xbuf, xout, ld_raw, ema, runVars,
                 mio, wp, usb>>

\* Lines 216-223: the midnight reset at the top of an iteration.
MidnightReset(m) ==
  IF m.today # m.last_midnight
  THEN [m EXCEPT !.car_today = 0, !.inbound_today = 0, !.outbound_today = 0,
                 !.last_midnight = m.today]
  ELSE m

\* Lines 327-332 and 360-365: the test for a valid BA or AB sequence.
CarValid(m, t_new, t_old, now) ==
  /\ t_old # NoneV
  /\ 0 < t_new - t_old /\ t_new - t_old <= CarCfg.sequence_window_s
  /\ now - m.last_car_time > CarCfg.cooldown_s

\* Lines 335-345 and 368-378: a car of sequence BA (lag "a") or AB (lag
\* "b") is counted; AB is the direction toward the reference.
CountCar(m, lag, now, ev_t) ==
  [m EXCEPT !.last_car_time = now,
            !.car_total = @ + 1,
            !.car_today = @ + 1,
            !.inbound_today = IF lag = "b" THEN @ + 1 ELSE @,
            !.outbound_today = IF lag = "a" THEN @ + 1 ELSE @,
            !.cars = Append(@, [lead_t |-> IF lag = "a" THEN m.tB_ev ELSE m.tA_ev,
                                lag_t |-> ev_t, lag |-> lag])]

\* Lines 324-389: the car direction FSM on the event e handled at now.
CarEvent(m, e, now) ==
  IF e.code = "a"
  THEN LET m1 == [m EXCEPT !.tA = now, !.tA_ev = e.t]
       IN IF CarValid(m1, m1.tA, m1.tB, now) THEN CountCar(m1, "a", now, e.t) ELSE m1
  ELSE LET m1 == [m EXCEPT !.tB = now, !.tB_ev = e.t]
       IN IF CarValid(m1, m1.tB, m1.tA, now) THEN CountCar(m1, "b", now, e.t) ELSE m1

\* Lines 254 and 291: the event falls in the cooldown of the last played one.
InCooldown(last, now, cooldown) == now - last < cooldown

\* Lines 251-287 and 289-321 up to the call of play_once: the letter or
\* donation event e handled at now, a clip of dur ticks to be played.
DropEvent(m, e, now, dur) ==
  LET last == IF e.code = "l" THEN m.last_letter_time ELSE m.last_donation_time
      cd == IF e.code = "l" THEN LetterCooldown ELSE DonationCooldown
  IN IF InCooldown(last, now, cd)
     THEN m
     ELSE [m EXCEPT !.last_letter_time = IF e.code = "l" THEN now ELSE @,
                    !.last_donation_time = IF e.code = "d" THEN now ELSE @,
                    !.pc = "playing",
                    !.play_until = now + dur,
                    !.plays = Append(@, [code |-> e.code, ev_t |-> e.t, start |-> now])]

\* One iteration of the loop of main that gets an event from the queue:
\* lines 213-389.  now_ts is read at the top; two iterations read
\* different times.
AppEvent ==
  /\ app.pc = "top"
  /\ evq # <<>>
  /\ app.now_ts # clock
  /\ LET e == Head(evq)
         m == [MidnightReset(app) EXCEPT !.now_ts = clock]
     IN \E dur \in ClipTicks :
          app' = IF e.code \in {"l", "d"}
                 THEN DropEvent(m, e, clock, dur)
                 ELSE CarEvent(m, e, clock)
  /\ evq' = Tail(evq)
  /\ UNCHANGED <<clock, scopeVars, concVars, pairVars, trigVars,
                 tx, sm, rbuf, line, xbuf, xout, ld_raw, ema, runVars,
                 mio, wp, usb>>

\* An iteration whose get_event times out: only the midnight reset.
AppIdle ==
  /\ app.pc = "top"
  /\ evq = <<>>
  /\ app.today # app.last_midnight
  /\ app' = MidnightReset(app)
  /\ UNCHANGED <<clock, scopeVars, concVars, pairVars, trigVars,
                 tx, sm, rbuf, line, xbuf, xout, ld_raw, ema, runVars,
                 mio, wp, usb, evq>>

\* player.play_once returns when the clip is over; the loop was blocked
\* in it all the while.
PlayEnd ==
  /\ app.pc = "playing"
  /\ clock' = Max2(clock, app.play_until)
  /\ app' = [app EXCEPT !.pc = "top"]
  /\ UNCHANGED <<scopeVars, concVars, pairVars, trigVars,
                 tx, sm, rbuf, line, xbuf, xout, ld_raw, ema, runVars,
                 mio, wp, usb, evq>>

\* A car passes radar `side`: Ld2410UsbReader.run (lines 150-180) gets a
\* report at or above min_energy that fires, then one below it.
RadarPass(side) ==
  /\ app.passes < MaxPasses
  /\ wk[Usb(side)] = "loop"
  /\ ~stop_ev[Usb(side)]
  /\ ~usb[side].last_present
  /\ (clock - usb[side].last_event_ts) > UsbCooldown
  /\ usb' = [usb EXCEPT ![side].last_event_ts = clock]
  /\ evq' = Append(evq, [code |-> EventCode(side), t |-> clock])
  /\ app' = [app EXCEPT !.passes = @ + 1]
  /\ UNCHANGED <<clock, scopeVars, concVars, pairVars, trigVars,
                 tx, sm, rbuf, line, xbuf, xout, ld_raw, ema, runVars,
                 mio, wp>>

NextApp ==
  \/ AppTick
  \/ Midnight
  \/ \E code \in {"l", "d"} : GpioEmit(code)
  \/ \E side \in Sides : RadarPass(side)
  \/ AppEvent
  \/ AppIdle
  \/ PlayEnd

SpecApp == Init /\ [][NextApp]_vars

\* ------------------------------------------------------------------
\* Properties of the car direction FSM of app.py
\* ------------------------------------------------------------------

\* The k-th counted car, by the times the radars produced its two events:
\* the leading event before the lagging one (it was put on the queue
\* first; the two may fall in one tick) and at most sequence_window_s
\* before it, and more than cooldown_s after the lagging event of the car
\* counted before.
CarInWindow(k) ==
  LET c == app.cars[k]
  IN /\ c.lead_t # NoneV
     /\ c.lead_t <= c.lag_t
     /\ c.lag_t - c.lead_t <= CarCfg.sequence_window_s
     /\ k > 1 => c.lag_t - app.cars[k - 1].lag_t > CarCfg.cooldown_s

\* The counters of the cars agree, also after the midnight reset.
CarSums ==
  /\ app.car_today = app.inbound_today + app.outbound_today
  /\ app.car_total >= app.car_today
  /\ app.car_total = Len(app.cars)

\* C38: a car is counted on an "a" ("b") event only if the latest "b"
\* ("a") event happened strictly before it and at most sequence_window_s
\* earlier and more than cooldown_s after the last counted car; and in
\* every state car_today = inbound_today + outbound_today and
\* car_total >= car_today, also across the midnight reset.
C38_Original ==
  /\ \A k \in 1..Len(app.cars) : CarInWindow(k)
  /\ CarSums

\* The counters of the cars agree in every state, also across the
\* midnight reset.
Car_Sums == CarSums

\* A step counts at most one car, on an "a" or "b" event that it takes
\* from the queue, and only if main handled the latest event of the other
\* radar strictly before this one and at most sequence_window_s before
\* it, and handled the last counted car more than cooldown_s ago.
Car_HandledInWindow ==
  [][app'.car_total # app.car_total =>
       /\ evq # <<>>
       /\ evq' = Tail(evq)
       /\ Head(evq).code \in {"a", "b"}
       /\ app'.car_total = app.car_total + 1
       /\ LET other == IF Head(evq).code = "a" THEN app.tB ELSE app.tA
          IN /\ other # NoneV
             /\ 0 < clock - other
             /\ clock - other <= CarCfg.sequence_window_s
             /\ clock - app.last_car_time > CarCfg.cooldown_s]_vars

\* A car counted before midnight stays in car_total after the reset.
Car_Seen ==
  /\ app.car_total = 1
  /\ app.car_today = 0
  /\ app.last_midnight = 1

\* An "a" or "b" event handled within the sequence window of the other
\* radar's event was not counted, the last car being too recent.
Car_CooldownSeen ==
  /\ app.tA # NoneV /\ app.tB # NoneV
  /\ app.now_ts = Max2(app.tA, app.tB)
  /\ app.tA # app.tB
  /\ app.tA - app.tB <= CarCfg.sequence_window_s
  /\ app.tB - app.tA <= CarCfg.sequence_window_s
  /\ app.last_car_time < app.now_ts
  /\ app.now_ts - app.last_car_time <= CarCfg.cooldown_s
  /\ app.car_total = 1

\* ------------------------------------------------------------------
\* Properties of the letter and donation debounce of app.py
\* ------------------------------------------------------------------

DropCooldown(code) == IF code = "l" THEN LetterCooldown ELSE DonationCooldown

\* C39: when a letter (donation) event has started a playback, no further
\* letter (donation) event that the sensor produced within
\* letter_cooldown_s (donation_cooldown_s) of it starts another playback,
\* events queued while the clip was playing included.
C39_Original ==
  \A j, k \in 1..Len(app.plays) :
    (j < k /\ app.plays[j].code = app.plays[k].code)
      => app.plays[k].ev_t - app.plays[j].ev_t >= DropCooldown(app.plays[k].code)

\* Two playbacks of one kind start at least the cooldown apart, by the
\* times at which main took their events from the queue.
Drop_HandledApart ==
  \A j, k \in 1..Len(app.plays) :
    (j < k /\ app.plays[j].code = app.plays[k].code)
      => app.plays[k].start - app.plays[j].start >= DropCooldown(app.plays[k].code)

\* Two letter events were handled and only the first one was played.
Drop_Ignored ==
  /\ app.pc = "top"
  /\ evq = <<>>
  /\ app.emitted = 2
  /\ app.pin_t.d = 0
  /\ Len(app.plays) = 1

\* ====================================================================
\* extract_report_frames on any run of headers, footers and other bytes
\* ====================================================================

MaxRuns == 5

\* What the line carries: a header, a footer, a data byte, half a header.
WireRuns == {HDR_RPT, FTR_RPT, <<7>>, <<244, 243>>}

\* The port of `side` receives the run g.
RptRun(side, g) ==
  /\ tx.garbage < MaxRuns
  /\ tx' = [tx EXCEPT !.garbage = @ + 1, !.bytes = @ + Len(g)]
  /\ line' = [line EXCEPT ![side] = @ \o g]
  /\ UNCHANGED <<clock, scopeVars, concVars, pairVars, trigVars, sm, rbuf, xbuf, xout,
                 ld_raw, ema, appVars, runVars>>

\* The scope's reader A on a line of headers, footers and other bytes in
\* any order, read in any chunks.
NextExtract ==
  \/ \E side \in OpenSides : \E g \in WireRuns : RptRun(side, g)
  \/ \E side \in OpenSides : ReaderChunk(side)

SpecExtract == InitReaders({"spike"}, {"moving"}) /\ [][NextExtract]_vars

\* ------------------------------------------------------------------
\* Properties of the report-frame extractor
\* ------------------------------------------------------------------

\* b holds no complete frame: no header with a footer after it.
NoFrameIn(b) ==
  \A h, e \in 1..Len(b) :
    ~(OccursAt(b, HDR_RPT, h) /\ OccursAt(b, FTR_RPT, e) /\ e >= h + 4)

\* f starts with the header and ends with the first footer after it.
FrameShape(f) ==
  /\ Len(f) >= 8
  /\ OccursAt(f, HDR_RPT, 1)
  /\ OccursAt(f, FTR_RPT, Len(f) - 3)
  /\ \A e \in 5..(Len(f) - 4) : ~OccursAt(f, FTR_RPT, e)

\* b is the frames in order and then rest, with bytes in front of a frame
\* or in front of rest, where rest begins with a header, and no others.
RECURSIVE Rebuilt(_, _, _)
Rebuilt(b, frames, rest) ==
  IF frames = <<>>
  THEN /\ IsSuffix(rest, b)
       /\ Len(rest) < Len(b) => OccursAt(rest, HDR_RPT, 1)
  ELSE \E p \in 1..Len(b) :
         /\ OccursAt(b, frames[1], p)
         /\ Rebuilt(SubSeq(b, p + Len(frames[1]), Len(b)), Tail(frames), rest)

\* C40: after every call of extract_report_frames the buffer holds no
\* complete frame; each returned frame starts with the header and ends
\* with the first footer after that header; and, when the call did not
\* trim, the returned frames in order followed by the buffer left are the
\* buffer given with only bytes before a header removed.
C40_Extracted ==
  [][\A s \in OpenSides : ChunkStep(s) =>
       LET b == xbuf[s] \o line[s]
           new == SubSeq(xout'[s], Len(xout[s]) + 1, Len(xout'[s]))
       IN /\ NoFrameIn(xbuf'[s])
          /\ \A k \in 1..Len(new) : FrameShape(new[k])
          /\ Len(b) <= 4096 => Rebuilt(b, new, xbuf'[s])]_vars

\* Seventeen bytes were read: two frames of header and footer were
\* returned, the byte in front of one of them is gone and the buffer is
\* empty.
C40_Witness ==
  /\ tx.bytes = 17
  /\ line["A"] = <<>>
  /\ xout["A"] = <<HDR_RPT \o FTR_RPT, HDR_RPT \o FTR_RPT>>
  /\ xbuf["A"] = <<>>

\* Two frames were returned and an open header is kept.
Extract_TwoAndOpen ==
  /\ tx.garbage = 5
  /\ line["A"] = <<>>
  /\ Len(xout["A"]) = 2
  /\ xbuf["A"] = HDR_RPT

====
